---- MODULE Spec2Model ----
(***************************************************************************)
(* dogeorg/indexer: the UTXO index kept by Indexer.Run (index/indexer.go)  *)
(* in the SQL store of store/pgstore.go, fed by the block walker.          *)
(*                                                                         *)
(* The store is modelled table by table (utxo, tx, resume) and statement   *)
(* by statement; a transaction is a working copy that replaces the         *)
(* committed tables at COMMIT and is dropped at ROLLBACK.  The Indexer is  *)
(* modelled position by position (pc).  The walker, the node and the       *)
(* supervisor are the environment.                                         *)
(***************************************************************************)
EXTENDS Integers, Sequences, FiniteSets, TLC

(***************************************************************************)
(* Bounds of the model.                                                    *)
(***************************************************************************)
MaxHeight == 3      \* highest block height the walker emits
MaxEvents == 4      \* events the walker emits over the whole run
MaxChan == 2        \* events in flight in the channel
MaxCrashes == 1     \* crash / restart cycles of the process
MaxAttempts == 2    \* attempts the store lets an event's transaction take

(***************************************************************************)
(* Scaled parameters.  The source has trimIntervalBlocks = 1000            *)
(* (index/indexer.go), MaxRollbackDepth = 1440 (main.go, passed to         *)
(* NewIndexer as trimSpentAfter) and confirmations = 6 (the web API's      *)
(* argument to GetBalance).  The code only compares, adds and subtracts    *)
(* them; they are scaled down so that a trim point and a confirmation      *)
(* depth lie within MaxEvents and MaxHeight.                               *)
(***************************************************************************)
trimIntervalBlocks == 3
MaxRollbackDepth == 1
Confirmations == 1
trimSpentAfter == MaxRollbackDepth

(***************************************************************************)
(* Program constants.                                                      *)
(***************************************************************************)
ONE_DOGE == 100000000
DUST_LIMIT == ONE_DOGE \div 100

\* doge.ScriptType values
ScriptTypeNone == 0
ScriptTypeP2PK == 1
ScriptTypeP2PKH == 2
ScriptTypeP2SH == 3
ScriptTypeMultiSig == 4
ScriptTypeP2PKHW == 5
ScriptTypeP2SHW == 6
ScriptTypeNullData == 7
ScriptTypeNonStandard == 8

\* SQL NULL (column `spent`, or a scalar subquery with no row)
NULL == -1

\* var Zeroes = [32]byte{}: the coinbase previous-transaction hash
Zeroes == 0

(***************************************************************************)
(* encoding/hex on a block hash.  A hash is one byte here; its hex string  *)
(* is two digits 0..15; any other digit value is not a hex character.      *)
(***************************************************************************)
HexEncode(b) == << b \div 16, b % 16 >>

\* hex.DecodeString: the bytes decoded before the first bad character, and err.
\* The empty string decodes to no bytes without an error; a string of odd
\* length or with a bad character in its first byte gives no bytes and an error.
hexDecodeString(s) ==
    IF Len(s) = 0 THEN [bytes |-> << >>, err |-> FALSE]
    ELSE IF Len(s) = 2 /\ s[1] \in 0..15 /\ s[2] \in 0..15
    THEN [bytes |-> << 16 * s[1] + s[2] >>, err |-> FALSE]
    ELSE [bytes |-> << >>, err |-> TRUE]

(***************************************************************************)
(* The store: the tables of SCHEMA_v0.                                     *)
(*   utxo(txid, vout, value, kind, script, spent)  PRIMARY KEY (txid,vout) *)
(*   tx(txid BIGSERIAL, height, hash)                                      *)
(*   resume(hash, height)                                                  *)
(* `born` and `of` on a utxo row are history fields (the height            *)
(* CreateUTXOs was called with, and the transaction hash of the output);   *)
(* no statement reads them.  `serial` is the BIGSERIAL sequence of         *)
(* tx.txid.                                                                *)
(***************************************************************************)
EmptyStore == [utxo |-> {}, tx |-> {}, resume |-> << >>, serial |-> 1]

\* SetResumePoint with the INSERT run on every call
SetResumePointInsert(s, hash, height) ==
    [s EXCEPT !.resume = Append([i \in 1..Len(@) |-> [hash |-> hash, height |-> height]],
                                [hash |-> hash, height |-> height])]

\* SetResumePoint: UPDATE resume SET hash, height; INSERT when no row was updated
SetResumePoint(s, hash, height) ==
    LET updated == [i \in 1..Len(s.resume) |-> [hash |-> hash, height |-> height]]
        rows == Len(s.resume)
    IN  IF rows < 1
        THEN [s EXCEPT !.resume = Append(updated, [hash |-> hash, height |-> height])]
        ELSE [s EXCEPT !.resume = updated]

\* (SELECT txid FROM tx WHERE hash=$3): the scalar subquery of RemoveUTXOs;
\* NULL with no row, the lowest rowid when several rows match
TxidOfHash(s, hash) ==
    LET ids == {t.txid : t \in {r \in s.tx : r.hash = hash}}
    IN  IF ids = {} THEN NULL
        ELSE CHOOSE i \in ids : \A j \in ids : i <= j

\* UPDATE utxo SET spent=$1 WHERE vout=$2 AND txid=(SELECT txid FROM tx WHERE hash=$3)
MarkSpent(s, out, height) ==
    LET id == TxidOfHash(s, out.Tx)
    IN  [s EXCEPT !.utxo = {IF id # NULL /\ u.txid = id /\ u.vout = out.VOut
                            THEN [u EXCEPT !.spent = height] ELSE u : u \in s.utxo}]

RECURSIVE RemoveUTXOsStopAtMiss(_, _, _)
\* RemoveUTXOs giving up at the first outpoint that has no tx row
RemoveUTXOsStopAtMiss(s, removeList, height) ==
    IF removeList = << >> THEN s
    ELSE IF TxidOfHash(s, Head(removeList).Tx) = NULL THEN s
    ELSE RemoveUTXOsStopAtMiss(MarkSpent(s, Head(removeList), height),
                               Tail(removeList), height)

RECURSIVE RemoveUTXOs(_, _, _)
\* RemoveUTXOs marks UTXOs as spent at `height`, one UPDATE per outpoint in order
RemoveUTXOs(s, removeList, height) ==
    IF removeList = << >> THEN s
    ELSE RemoveUTXOs(MarkSpent(s, Head(removeList), height), Tail(removeList), height)

RECURSIVE InsertTxRowsEach(_, _, _, _)
\* first loop of CreateUTXOs without the txidMap test: one tx row per output
InsertTxRowsEach(s, createList, height, txidMap) ==
    IF createList = << >> THEN [s |-> s, txidMap |-> txidMap]
    ELSE InsertTxRowsEach(
           [s EXCEPT !.tx = @ \cup {[txid |-> s.serial, height |-> height,
                                     hash |-> Head(createList).TxID]},
                     !.serial = @ + 1],
           Tail(createList), height,
           txidMap \cup {<< Head(createList).TxID, s.serial >>})

RECURSIVE InsertTxRows(_, _, _, _)
\* first loop of CreateUTXOs: one tx row per hash not yet in txidMap.
\* Returns the store and txidMap (a set of <<hash, txid>> pairs).
InsertTxRows(s, createList, height, txidMap) ==
    IF createList = << >> THEN [s |-> s, txidMap |-> txidMap]
    ELSE LET utxo == Head(createList)
             found == \E m \in txidMap : m[1] = utxo.TxID
         IN  IF found
             THEN InsertTxRows(s, Tail(createList), height, txidMap)
             ELSE InsertTxRows(
                    [s EXCEPT !.tx = @ \cup {[txid |-> s.serial, height |-> height,
                                              hash |-> utxo.TxID]},
                              !.serial = @ + 1],
                    Tail(createList), height,
                    txidMap \cup {<< utxo.TxID, s.serial >>})

RECURSIVE InsertUtxoRows(_, _, _, _)
\* second loop of CreateUTXOs: INSERT INTO utxo; a duplicate (txid,vout) is a
\* constraint violation, which ends the loop with an error.
InsertUtxoRows(s, createList, height, txidMap) ==
    IF createList = << >> THEN [s |-> s, err |-> FALSE]
    ELSE LET utxo == Head(createList)
             txid == (CHOOSE m \in txidMap : m[1] = utxo.TxID)[2]
             dup == \E u \in s.utxo : u.txid = txid /\ u.vout = utxo.VOut
         IN  IF dup THEN [s |-> s, err |-> TRUE]
             ELSE InsertUtxoRows(
                    [s EXCEPT !.utxo = @ \cup {[txid |-> txid, vout |-> utxo.VOut,
                                                value |-> utxo.Value, kind |-> utxo.Type,
                                                script |-> utxo.Script, spent |-> NULL,
                                                born |-> height, of |-> utxo.TxID]}],
                    Tail(createList), height, txidMap)

\* CreateUTXOs inserts new UTXOs at `height`
CreateUTXOs(s, createList, height) ==
    LET a == InsertTxRows(s, createList, height, {})
    IN  InsertUtxoRows(a.s, createList, height, a.txidMap)

\* mutant of UndoAbove: the third statement also unmarks rows spent at `height`
UndoAboveInclusive(s, height) ==
    LET above == {t.txid : t \in {r \in s.tx : r.height > height}}
        s1 == [s EXCEPT !.utxo = {u \in @ : u.txid \notin above}]
        s2 == [s1 EXCEPT !.tx = {t \in @ : ~(t.height > height)}]
    IN  [s2 EXCEPT !.utxo = {IF u.spent # NULL /\ u.spent >= height
                             THEN [u EXCEPT !.spent = NULL] ELSE u : u \in @}]

\* mutant of UndoAbove: the third statement (unmark spent) is missing
UndoAboveKeepsSpent(s, height) ==
    LET above == {t.txid : t \in {r \in s.tx : r.height > height}}
        s1 == [s EXCEPT !.utxo = {u \in @ : u.txid \notin above}]
    IN  [s1 EXCEPT !.tx = {t \in @ : ~(t.height > height)}]

\* UndoAbove removes created UTXOs and re-activates removed UTXOs above `height`
UndoAbove(s, height) ==
    LET above == {t.txid : t \in {r \in s.tx : r.height > height}}
        s1 == [s EXCEPT !.utxo = {u \in @ : u.txid \notin above}]
        s2 == [s1 EXCEPT !.tx = {t \in @ : ~(t.height > height)}]
    IN  [s2 EXCEPT !.utxo = {IF u.spent # NULL /\ u.spent > height
                             THEN [u EXCEPT !.spent = NULL] ELSE u : u \in @}]

\* first statement of TrimSpentUTXOs: DELETE FROM utxo WHERE spent < $1
TrimDeleteUtxo(s, height) ==
    [s EXCEPT !.utxo = {u \in @ : ~(u.spent # NULL /\ u.spent < height)}]

\* tx t LEFT OUTER JOIN utxo u ON t.txid = u.txid AND u.txid IS NULL:
\* the pairs the ON condition admits, and <<t, NULL>> for every t with no pair.
\* Returns the t.txid column of the join.
TrimOrphanSelect(s) ==
    LET on(t, u) == t.txid = u.txid /\ u.txid = NULL
        matched == {t \in s.tx : \E u \in s.utxo : on(t, u)}
        unmatched == {t \in s.tx : ~ \E u \in s.utxo : on(t, u)}
    IN  {t.txid : t \in matched \cup unmatched}

\* second statement of TrimSpentUTXOs: DELETE FROM tx WHERE txid IN (SELECT ...)
TrimDeleteTx(s) ==
    LET ids == TrimOrphanSelect(s)
    IN  [s EXCEPT !.tx = {t \in @ : t.txid \notin ids}]

\* TrimSpentUTXOs permanently deletes all spent UTXOs below `height`
TrimSpentUTXOs(s, height) == TrimDeleteTx(TrimDeleteUtxo(s, height))

\* utxo u INNER JOIN tx t ON u.txid = t.txid
Joined(s) == {p \in s.utxo \X s.tx : p[1].txid = p[2].txid}

\* FindUTXOs: the unspent rows of (kind, address), joined with their tx row
FindUTXOs(s, kind, address) ==
    {[TxID |-> p[2].hash, VOut |-> p[1].vout, Value |-> p[1].value,
      Type |-> kind, Script |-> p[1].script] :
        p \in {q \in Joined(s) : q[1].script = address /\ q[1].kind = kind
                                 /\ q[1].spent = NULL}}

RECURSIVE SumValue(_)
\* COALESCE(SUM(u.value),0) over a set of joined rows
SumValue(ps) ==
    IF ps = {} THEN 0
    ELSE LET p == CHOOSE q \in ps : TRUE
         IN  p[1].value + SumValue(ps \ {p})

\* (SELECT height FROM resume LIMIT 1)
ResumeHeight(s) == IF s.resume = << >> THEN NULL ELSE s.resume[1].height

\* GetBalance with `>` in the incoming sum: the row created at H - c is in no sum
GetBalanceGap(s, kind, address, confirmations) ==
    LET H == ResumeHeight(s)
        mine == {q \in Joined(s) : q[1].script = address /\ q[1].kind = kind}
    IN  [Available |-> SumValue({q \in mine : H # NULL /\ q[2].height < H - confirmations
                                              /\ q[1].spent = NULL}),
         Incoming |-> SumValue({q \in mine : H # NULL /\ q[2].height > H - confirmations
                                             /\ q[1].spent = NULL}),
         Outgoing |-> SumValue({q \in mine : H # NULL /\ q[1].spent # NULL
                                             /\ q[1].spent >= H - confirmations})]

\* GetBalance: the three sums against the resume height; a comparison with a
\* NULL resume height selects no row
GetBalance(s, kind, address, confirmations) ==
    LET H == ResumeHeight(s)
        mine == {q \in Joined(s) : q[1].script = address /\ q[1].kind = kind}
    IN  [Available |-> SumValue({q \in mine : H # NULL /\ q[2].height < H - confirmations
                                              /\ q[1].spent = NULL}),
         Incoming |-> SumValue({q \in mine : H # NULL /\ q[2].height >= H - confirmations
                                             /\ q[1].spent = NULL}),
         Outgoing |-> SumValue({q \in mine : H # NULL /\ q[1].spent # NULL
                                             /\ q[1].spent >= H - confirmations})]

\* GetResumePoint: SELECT hash FROM resume LIMIT 1; nil with no row
GetResumePoint(s) == IF s.resume = << >> THEN << >> ELSE s.resume[1].hash

\* GetCurrentHeight: the height of the resume row, 0 when there is none
GetCurrentHeight(s) == IF s.resume = << >> THEN 0 ELSE s.resume[1].height

(***************************************************************************)
(* Blocks, as the walker delivers them.  A transaction is                  *)
(*   [TxID, VIn: Seq([TxID, VOut]), VOut: Seq([Value, Type, Script])]      *)
(* where Type and Script of an output are what doge.ClassifyScript returns *)
(* for its script.  A block is [Hash, Tx: Seq(transaction)].               *)
(***************************************************************************)
RECURSIVE TxRemovesAll(_)
\* the inner loop over tx.VIn without the test for the all-zero hash
TxRemovesAll(vin) ==
    IF vin = << >> THEN << >>
    ELSE << [Tx |-> Head(vin).TxID, VOut |-> Head(vin).VOut] >> \o TxRemovesAll(Tail(vin))

RECURSIVE TxRemoves(_)
\* inner loop over tx.VIn: every input but the coinbase input
TxRemoves(vin) ==
    IF vin = << >> THEN << >>
    ELSE IF Head(vin).TxID # Zeroes
         THEN << [Tx |-> Head(vin).TxID, VOut |-> Head(vin).VOut] >> \o TxRemoves(Tail(vin))
         ELSE TxRemoves(Tail(vin))

\* the test on an output without the test on its type
IndexedAnyType(out) == out.Value > 0

\* `if out.Value > 0` and `typ != NonStandard && typ != NullData`
Indexed(out) ==
    /\ out.Value > 0
    /\ out.Type # ScriptTypeNonStandard
    /\ out.Type # ScriptTypeNullData

RECURSIVE TxCreates(_, _, _)
\* inner loop over tx.VOut, `vout` counting from 0
TxCreates(txID, vouts, vout) ==
    IF vouts = << >> THEN << >>
    ELSE LET out == Head(vouts)
             rest == TxCreates(txID, Tail(vouts), vout + 1)
         IN  IF Indexed(out)
             THEN << [TxID |-> txID, VOut |-> vout, Value |-> out.Value,
                      Type |-> out.Type, Script |-> out.Script] >> \o rest
             ELSE rest

RECURSIVE BuildRemoveUTXOs(_)
\* the removeUTXOs list of a block (nil is the empty sequence)
BuildRemoveUTXOs(txs) ==
    IF txs = << >> THEN << >>
    ELSE TxRemoves(Head(txs).VIn) \o BuildRemoveUTXOs(Tail(txs))

RECURSIVE BuildCreateUTXOs(_)
\* the createUTXOs list of a block (nil is the empty sequence)
BuildCreateUTXOs(txs) ==
    IF txs = << >> THEN << >>
    ELSE TxCreates(Head(txs).TxID, Head(txs).VOut, 0) \o BuildCreateUTXOs(Tail(txs))

\* the function Run hands to Transact for a block: the removals, the creations,
\* then the resume point; the first error ends it
BlockTxnBody(s, rm, cr, hash, height) ==
    LET s1 == IF rm # << >> THEN RemoveUTXOs(s, rm, height) ELSE s
        r == IF cr # << >> THEN CreateUTXOs(s1, cr, height) ELSE [s |-> s1, err |-> FALSE]
    IN  IF r.err THEN [s |-> s, err |-> TRUE]
        ELSE [s |-> SetResumePoint(r.s, hash, height), err |-> FALSE]

\* the function Run hands to Transact for an undo
UndoTxnBody(s, hash, height) == SetResumePoint(UndoAbove(s, height), hash, height)

\* the store after the whole of event c, from store s
EventPost(s, c) ==
    LET hash == hexDecodeString(c.LastProcessedBlock).bytes
    IN  IF c.Block # << >>
        THEN LET rm == BuildRemoveUTXOs(c.Block[1].Tx)
                 cr == BuildCreateUTXOs(c.Block[1].Tx)
             IN  IF rm # << >> \/ cr # << >>
                 THEN BlockTxnBody(s, rm, cr, hash, c.Height).s
                 ELSE s
        ELSE IF c.Undo # << >> THEN UndoTxnBody(s, hash, c.Height)
        ELSE s

RECURSIVE ApplyBlocks(_, _, _)
\* the store after the blocks blks, applied in order from store s at heights h+1, h+2, ...
ApplyBlocks(s, blks, h) ==
    IF blks = << >> THEN s
    ELSE ApplyBlocks(EventPost(s, [Height |-> h + 1,
                                   LastProcessedBlock |-> HexEncode(Head(blks).Hash),
                                   Block |-> << Head(blks) >>, Undo |-> << >>, id |-> 0]),
                     Tail(blks), h + 1)

\* the utxo table as a set of outputs: each row with the hash and height of its
\* tx row (NULL when it has none), without the surrogate txid
UtxoSet(s) ==
    {[hash |-> IF \E t \in s.tx : t.txid = u.txid
               THEN (CHOOSE t \in s.tx : t.txid = u.txid).hash ELSE NULL,
      height |-> IF \E t \in s.tx : t.txid = u.txid
                 THEN (CHOOSE t \in s.tx : t.txid = u.txid).height ELSE NULL,
      vout |-> u.vout, value |-> u.value, kind |-> u.kind, script |-> u.script,
      spent |-> u.spent] : u \in s.utxo}

(***************************************************************************)
(* The environment's chain: what a valid chain can hold next.              *)
(***************************************************************************)
Addr1 == "a1"
Addr2 == "a2"
Pay(addr, value) == [Value |-> value, Type |-> ScriptTypeP2PKH, Script |-> addr]
NonStd == [Value |-> DUST_LIMIT, Type |-> ScriptTypeNonStandard, Script |-> "ns"]
CoinbaseIn == [TxID |-> Zeroes, VOut |-> 0]

RECURSIVE ChainTxs(_)
ChainTxs(chain) ==
    IF chain = << >> THEN << >> ELSE Head(chain).Tx \o ChainTxs(Tail(chain))

TxOutPoints(t) == {[TxID |-> t.TxID, VOut |-> i - 1] : i \in 1..Len(t.VOut)}
TxSpends(t) == {t.VIn[i] : i \in 1..Len(t.VIn)}

\* the outputs of the chain no input of the chain has spent
Unspent(chain) ==
    LET txs == ChainTxs(chain)
        made == UNION {TxOutPoints(txs[i]) : i \in 1..Len(txs)}
        gone == UNION {TxSpends(txs[i]) : i \in 1..Len(txs)}
    IN  made \ gone

\* the lowest transaction hash the chain does not hold yet, above `floor`
FreshHash(chain, floor) ==
    LET txs == ChainTxs(chain)
        used == {txs[i].TxID : i \in 1..Len(txs)}
    IN  CHOOSE n \in 1..(Len(txs) + floor + 1) :
            /\ n > floor /\ n \notin used
            /\ \A m \in (floor + 1)..(n - 1) : m \in used

\* hash of the block at height h on branch br (one byte)
BlockHash(h, br) == 16 * br + h
GenesisHash == 0

\* the oldest unspent output of the chain, if any (a set of at most one input)
OldestUnspent(chain) ==
    LET u == Unspent(chain)
    IN  {i \in u : \A j \in u : i.TxID < j.TxID \/ (i.TxID = j.TxID /\ i.VOut <= j.VOut)}

\* the blocks a valid chain can hold after `chain`:
\*   a coinbase transaction with no output worth indexing,
\*   a coinbase transaction paying two addresses,
\*   the latter followed by a transaction that spends its first output,
\*   the former followed by a transaction that spends the chain's oldest unspent output
NextBlocks(chain, br) ==
    LET h1 == FreshHash(chain, 0)
        h2 == FreshHash(chain, h1)
        hash == BlockHash(Len(chain) + 1, br)
        plain == [TxID |-> h1, VIn |-> << CoinbaseIn >>, VOut |-> << NonStd >>]
        paying == [TxID |-> h1, VIn |-> << CoinbaseIn >>,
                   VOut |-> << Pay(Addr1, DUST_LIMIT), Pay(Addr2, DUST_LIMIT - 1) >>]
        spend(i) == [TxID |-> h2, VIn |-> << i >>, VOut |-> << Pay(Addr2, 2 * DUST_LIMIT) >>]
    IN  {[Hash |-> hash, Tx |-> << plain >>],
         [Hash |-> hash, Tx |-> << paying >>],
         [Hash |-> hash, Tx |-> << paying, spend([TxID |-> h1, VOut |-> 0]) >>]}
        \cup
        {[Hash |-> hash, Tx |-> << plain, spend(i) >>] : i \in OldestUnspent(chain)}

(***************************************************************************)
(* The block history.  A record holds Height, Hash, TxCount, UTXOCreated   *)
(* and UTXOSpent; Timestamp and ProcessingTime are wall-clock readings and *)
(* are left out.                                                           *)
(***************************************************************************)
maxBlockHistory == 10   \* Keep last 10 blocks in memory

\* recordBlockHistory with the new record added at the end
recordBlockHistoryAtEnd(ring, height, hash, txCount, utxoCreated, utxoSpent) ==
    LET block == [Height |-> height, Hash |-> hash, TxCount |-> txCount,
                  UTXOCreated |-> utxoCreated, UTXOSpent |-> utxoSpent]
        added == ring \o << block >>
    IN  IF Len(added) > maxBlockHistory THEN SubSeq(added, 1, maxBlockHistory) ELSE added

\* recordBlockHistory adds a block at the beginning (most recent first) and keeps
\* only the last maxBlockHistory blocks
recordBlockHistory(ring, height, hash, txCount, utxoCreated, utxoSpent) ==
    LET block == [Height |-> height, Hash |-> hash, TxCount |-> txCount,
                  UTXOCreated |-> utxoCreated, UTXOSpent |-> utxoSpent]
        added == << block >> \o ring
    IN  IF Len(added) > maxBlockHistory THEN SubSeq(added, 1, maxBlockHistory) ELSE added

\* GetBlockHistory returns a copy of the ring: make(len), copy
GetBlockHistory(ring) == [i \in 1..Len(ring) |-> ring[i]]

(***************************************************************************)
(* State.                                                                  *)
(***************************************************************************)
VARIABLES
    db,           \* the committed tables: what every other connection reads
    txn,          \* << >>, or << working copy >> of the open transaction
    pc,           \* position of Indexer.Run
    cmd,          \* the event taken from the channel
    resumeHash,   \* hex.DecodeString(cmd.LastProcessedBlock)
    removeUTXOs,  \* the block's removal list
    createUTXOs,  \* the block's creation list
    trimCounter,  \* events since the last trim point
    stopping,     \* the service context is cancelled
    blocks,       \* the channel from the walker
    chain,        \* the walker's active chain (blocks it has emitted and not undone)
    branch,       \* number of reorganisations the walker has announced
    nextId,       \* position in the channel of the next event: events sent so far + 1
    applied,      \* the blocks the Indexer has finished and not undone
    pre,          \* history: db when the event was taken / when the trim began
    trimmed,      \* history: a trim has run on this store
    lastCommitId, \* history: channel position of the last committed event
    crashedAt,    \* history: pc at the crash
    attempt,      \* attempts at the transaction of this event so far
    crashes,      \* crashes so far
    blockHistory, \* i.blockHistory: the recorded blocks, most recent first
    history       \* the copy GetBlockHistory last returned

idxVars == << pc, cmd, resumeHash, removeUTXOs, createUTXOs, trimCounter >>
walkerVars == << blocks, chain, branch, nextId >>
histVars == << pre, trimmed, lastCommitId, crashedAt >>
ringVars == << blockHistory, history >>
vars == << db, txn, idxVars, stopping, walkerVars, applied, histVars, attempt, crashes, ringVars >>

NoCmd == [Height |-> 0, LastProcessedBlock |-> << >>, Block |-> << >>, Undo |-> << >>, id |-> 0]

Init ==
    /\ db = EmptyStore
    /\ txn = << >>
    /\ pc = "loop"
    /\ cmd = NoCmd
    /\ resumeHash = << >>
    /\ removeUTXOs = << >>
    /\ createUTXOs = << >>
    /\ trimCounter = 0
    /\ stopping = FALSE
    /\ blocks = << >>
    /\ chain = << >>
    /\ branch = 0
    /\ nextId = 1
    /\ applied = << >>
    /\ pre = EmptyStore
    /\ trimmed = FALSE
    /\ lastCommitId = 0
    /\ crashedAt = "none"
    /\ attempt = 0
    /\ crashes = 0
    /\ blockHistory = << >>
    /\ history = << >>

(***************************************************************************)
(* The walker (environment): an ordered stream of Block, Undo and idle     *)
(* events; Height and LastProcessedBlock name the tip after the event.     *)
(***************************************************************************)
TipHash(c) == IF c = << >> THEN GenesisHash ELSE c[Len(c)].Hash

\* A send only meets the Indexer at its next receive, so sends are taken while
\* the Indexer waits in its select.
CanSend == /\ pc = "select"
           /\ nextId <= MaxEvents
           /\ Len(blocks) < MaxChan

WalkerBlock ==
    /\ CanSend
    /\ Len(chain) < MaxHeight
    /\ \E b \in NextBlocks(chain, branch) :
         /\ chain' = Append(chain, b)
         /\ blocks' = Append(blocks, [Height |-> Len(chain) + 1,
                                      LastProcessedBlock |-> HexEncode(b.Hash),
                                      Block |-> << b >>, Undo |-> << >>, id |-> nextId])
    /\ nextId' = nextId + 1
    /\ UNCHANGED << db, txn, idxVars, stopping, branch, applied, histVars, attempt, crashes, ringVars >>

\* a string hex.DecodeString rejects at its first character
MalformedHex == << 16, 16 >>

\* the walker sends a Block event whose LastProcessedBlock is not hex
WalkerBlockBadHex ==
    /\ CanSend
    /\ Len(chain) < MaxHeight
    /\ \E b \in NextBlocks(chain, branch) :
         /\ chain' = Append(chain, b)
         /\ blocks' = Append(blocks, [Height |-> Len(chain) + 1,
                                      LastProcessedBlock |-> MalformedHex,
                                      Block |-> << b >>, Undo |-> << >>, id |-> nextId])
    /\ nextId' = nextId + 1
    /\ UNCHANGED << db, txn, idxVars, stopping, branch, applied, histVars, attempt, crashes, ringVars >>

WalkerUndo ==
    /\ CanSend
    /\ \E h \in 0..(Len(chain) - 1) :
         LET c == SubSeq(chain, 1, h)
         IN  /\ chain' = c
             /\ blocks' = Append(blocks, [Height |-> h,
                                          LastProcessedBlock |-> HexEncode(TipHash(c)),
                                          Block |-> << >>,
                                          Undo |-> << [LastValidHeight |-> h,
                                                       LastValidHash |-> TipHash(c)] >>,
                                          id |-> nextId])
    /\ branch' = branch + 1
    /\ nextId' = nextId + 1
    /\ UNCHANGED << db, txn, idxVars, stopping, applied, histVars, attempt, crashes, ringVars >>

WalkerIdle ==
    /\ CanSend
    /\ blocks' = Append(blocks, [Height |-> Len(chain),
                                 LastProcessedBlock |-> HexEncode(TipHash(chain)),
                                 Block |-> << >>, Undo |-> << >>, id |-> nextId])
    /\ nextId' = nextId + 1
    /\ UNCHANGED << db, txn, idxVars, stopping, chain, branch, applied, histVars,
                    attempt, crashes, ringVars >>

(***************************************************************************)
(* Indexer.Run                                                             *)
(***************************************************************************)
\* mutant of ChanRecv: the newest event is taken first
ChanRecvNewest(ch) == [cmd |-> ch[Len(ch)], rest |-> SubSeq(ch, 1, Len(ch) - 1)]

\* cmd = <-i.blocks: the oldest event, and the channel without it
ChanRecv(ch) == [cmd |-> Head(ch), rest |-> Tail(ch)]

\* where the dispatch on the event leads
Dispatch(c, rm, cr) ==
    IF c.Block # << >>
    THEN IF rm # << >> \/ cr # << >> THEN "blk_txn" ELSE "record"
    ELSE IF c.Undo # << >> THEN "undo_txn" ELSE "trim"

\* `for !i.Stopping()` is true: Run enters the select
LoopTest ==
    /\ pc = "loop"
    /\ ~stopping
    /\ pc' = "select"
    /\ UNCHANGED << db, txn, cmd, resumeHash, removeUTXOs, createUTXOs, trimCounter,
                    stopping, walkerVars, applied, histVars, attempt, crashes, ringVars >>

\* select: an event arrives.  The hex is decoded (an error is logged and slept
\* on), and for a block the two lists are built.
Receive ==
    /\ pc = "select"
    /\ blocks # << >>
    /\ LET c == ChanRecv(blocks).cmd
           rm == IF c.Block # << >> THEN BuildRemoveUTXOs(c.Block[1].Tx) ELSE << >>
           cr == IF c.Block # << >> THEN BuildCreateUTXOs(c.Block[1].Tx) ELSE << >>
       IN  /\ cmd' = c
           /\ blocks' = ChanRecv(blocks).rest
           /\ resumeHash' = hexDecodeString(c.LastProcessedBlock).bytes
           /\ removeUTXOs' = rm
           /\ createUTXOs' = cr
           /\ pc' = Dispatch(c, rm, cr)
    /\ pre' = db
    /\ attempt' = 0
    /\ UNCHANGED << db, txn, trimCounter, stopping, chain, branch, nextId, applied,
                    trimmed, lastCommitId, crashedAt, crashes, ringVars >>

\* `for !i.Stopping()` is false, or select takes <-done: Run returns
Return ==
    /\ pc \in {"loop", "select"}
    /\ stopping
    /\ pc' = "stopped"
    /\ UNCHANGED << db, txn, cmd, resumeHash, removeUTXOs, createUTXOs, trimCounter,
                    stopping, walkerVars, applied, histVars, attempt, crashes, ringVars >>

\* the supervisor cancels the service context
\* The flag is read at the head of the main loop, in the select and at the head
\* of the two retry loops: a cancellation in between is the same as one at the
\* next of these points, except within a transaction, where it is taken just
\* before the COMMIT.
Stop ==
    /\ pc \in {"loop", "select", "blk_txn", "undo_txn", "blk_commit", "undo_commit"}
    /\ ~stopping
    /\ stopping' = TRUE
    /\ UNCHANGED << db, txn, idxVars, walkerVars, applied, histVars, attempt, crashes, ringVars >>

\* Transact: BEGIN
BlockBegin ==
    /\ pc = "blk_txn"
    /\ ~stopping
    /\ txn' = << db >>
    /\ pc' = "blk_remove"
    /\ attempt' = attempt + 1
    /\ UNCHANGED << db, cmd, resumeHash, removeUTXOs, createUTXOs, trimCounter,
                    stopping, walkerVars, applied, histVars, crashes, ringVars >>

\* mutant of BlockAbandon: the retry loop does not look at the cancellation
BlockAbandonRetry ==
    /\ pc = "blk_txn"
    /\ stopping
    /\ pc' = "blk_sleep"
    /\ UNCHANGED << db, txn, cmd, resumeHash, removeUTXOs, createUTXOs, trimCounter,
                    stopping, walkerVars, applied, histVars, attempt, crashes, ringVars >>

\* the retry loop `for !i.Stopping()` ends without a commit
BlockAbandon ==
    /\ pc = "blk_txn"
    /\ stopping
    /\ pc' = "record"
    /\ UNCHANGED << db, txn, cmd, resumeHash, removeUTXOs, createUTXOs, trimCounter,
                    stopping, walkerVars, applied, histVars, attempt, crashes, ringVars >>

\* mutant of BlockRemove: the removals run on the store, outside the transaction
BlockRemoveOutsideTxn ==
    /\ pc = "blk_remove"
    /\ db' = RemoveUTXOs(db, removeUTXOs, cmd.Height)
    /\ txn' = << RemoveUTXOs(txn[1], removeUTXOs, cmd.Height) >>
    /\ pc' = "blk_create"
    /\ UNCHANGED << cmd, resumeHash, removeUTXOs, createUTXOs, trimCounter,
                    stopping, walkerVars, applied, histVars, attempt, crashes, ringVars >>

\* if removeUTXOs != nil { tx.RemoveUTXOs(removeUTXOs, cmd.Height) }
BlockRemove ==
    /\ pc = "blk_remove"
    /\ txn' = IF removeUTXOs # << >>
              THEN << RemoveUTXOs(txn[1], removeUTXOs, cmd.Height) >>
              ELSE txn
    /\ pc' = "blk_create"
    /\ UNCHANGED << db, cmd, resumeHash, removeUTXOs, createUTXOs, trimCounter,
                    stopping, walkerVars, applied, histVars, attempt, crashes, ringVars >>

\* mutant of BlockCreate: the creations run on the store, outside the transaction
BlockCreateOutsideTxn ==
    /\ pc = "blk_create"
    /\ db' = CreateUTXOs(db, createUTXOs, cmd.Height).s
    /\ txn' = << CreateUTXOs(txn[1], createUTXOs, cmd.Height).s >>
    /\ pc' = "blk_resume"
    /\ UNCHANGED << cmd, resumeHash, removeUTXOs, createUTXOs, trimCounter,
                    stopping, walkerVars, applied, histVars, attempt, crashes, ringVars >>

\* if createUTXOs != nil { tx.CreateUTXOs(createUTXOs, cmd.Height) }; an error
\* rolls the transaction back
BlockCreate ==
    /\ pc = "blk_create"
    /\ LET r == IF createUTXOs # << >>
                THEN CreateUTXOs(txn[1], createUTXOs, cmd.Height)
                ELSE [s |-> txn[1], err |-> FALSE]
       IN  IF r.err
           THEN txn' = << >> /\ pc' = "blk_sleep"
           ELSE txn' = << r.s >> /\ pc' = "blk_resume"
    /\ UNCHANGED << db, cmd, resumeHash, removeUTXOs, createUTXOs, trimCounter,
                    stopping, walkerVars, applied, histVars, attempt, crashes, ringVars >>

\* return tx.SetResumePoint(resumeHash, cmd.Height)
BlockSetResume ==
    /\ pc = "blk_resume"
    /\ txn' = << SetResumePoint(txn[1], resumeHash, cmd.Height) >>
    /\ pc' = "blk_commit"
    /\ UNCHANGED << db, cmd, resumeHash, removeUTXOs, createUTXOs, trimCounter,
                    stopping, walkerVars, applied, histVars, attempt, crashes, ringVars >>

\* Transact: COMMIT; err == nil, break
BlockCommit ==
    /\ pc = "blk_commit"
    /\ db' = txn[1]
    /\ txn' = << >>
    /\ pc' = "record"
    /\ lastCommitId' = cmd.id
    /\ applied' = Append(applied, cmd.Block[1])
    /\ UNCHANGED << cmd, resumeHash, removeUTXOs, createUTXOs, trimCounter, stopping,
                    walkerVars, pre, trimmed, crashedAt, attempt, crashes, ringVars >>

\* mutant of BlockSleep: the failed event goes back to the end of the channel
BlockSleepRequeue ==
    /\ pc = "blk_sleep"
    /\ blocks' = Append(blocks, cmd)
    /\ pc' = "loop"
    /\ UNCHANGED << db, txn, cmd, resumeHash, removeUTXOs, createUTXOs, trimCounter,
                    stopping, chain, branch, nextId, applied, histVars, attempt, crashes, ringVars >>

\* i.Sleep(RETRY_DELAY), then the retry loop again
BlockSleep ==
    /\ pc = "blk_sleep"
    /\ pc' = "blk_txn"
    /\ UNCHANGED << db, txn, cmd, resumeHash, removeUTXOs, createUTXOs, trimCounter,
                    stopping, walkerVars, applied, histVars, attempt, crashes, ringVars >>

\* i.recordBlockHistory(...); the block is finished
Record ==
    /\ pc = "record"
    /\ pc' = "trim"
    /\ applied' = IF removeUTXOs = << >> /\ createUTXOs = << >>
                  THEN Append(applied, cmd.Block[1])   \* a block with nothing to write
                  ELSE applied                         \* appended at the commit, if any
    /\ blockHistory' = recordBlockHistory(blockHistory, cmd.Height, cmd.Block[1].Hash,
                                          Len(cmd.Block[1].Tx), Len(createUTXOs),
                                          Len(removeUTXOs))
    /\ UNCHANGED << db, txn, cmd, resumeHash, removeUTXOs, createUTXOs, trimCounter,
                    stopping, walkerVars, histVars, attempt, crashes, history >>

\* Transact: BEGIN (undo)
UndoBegin ==
    /\ pc = "undo_txn"
    /\ ~stopping
    /\ txn' = << db >>
    /\ pc' = "undo_above"
    /\ attempt' = attempt + 1
    /\ UNCHANGED << db, cmd, resumeHash, removeUTXOs, createUTXOs, trimCounter,
                    stopping, walkerVars, applied, histVars, crashes, ringVars >>

\* the retry loop of the undo ends without a commit
UndoAbandon ==
    /\ pc = "undo_txn"
    /\ stopping
    /\ pc' = "trim"
    /\ UNCHANGED << db, txn, cmd, resumeHash, removeUTXOs, createUTXOs, trimCounter,
                    stopping, walkerVars, applied, histVars, attempt, crashes, ringVars >>

\* tx.UndoAbove(cmd.Height)
UndoStep ==
    /\ pc = "undo_above"
    /\ txn' = << UndoAbove(txn[1], cmd.Height) >>
    /\ pc' = "undo_resume"
    /\ UNCHANGED << db, cmd, resumeHash, removeUTXOs, createUTXOs, trimCounter,
                    stopping, walkerVars, applied, histVars, attempt, crashes, ringVars >>

\* return tx.SetResumePoint(resumeHash, cmd.Height)
UndoSetResume ==
    /\ pc = "undo_resume"
    /\ txn' = << SetResumePoint(txn[1], resumeHash, cmd.Height) >>
    /\ pc' = "undo_commit"
    /\ UNCHANGED << db, cmd, resumeHash, removeUTXOs, createUTXOs, trimCounter,
                    stopping, walkerVars, applied, histVars, attempt, crashes, ringVars >>

\* Transact: COMMIT (undo)
UndoCommit ==
    /\ pc = "undo_commit"
    /\ db' = txn[1]
    /\ txn' = << >>
    /\ pc' = "trim"
    /\ lastCommitId' = cmd.id
    /\ applied' = SubSeq(applied, 1, cmd.Height)
    /\ UNCHANGED << cmd, resumeHash, removeUTXOs, createUTXOs, trimCounter, stopping,
                    walkerVars, pre, trimmed, crashedAt, attempt, crashes, ringVars >>

\* i.Sleep(RETRY_DELAY), then the retry loop of the undo again
UndoSleep ==
    /\ pc = "undo_sleep"
    /\ pc' = "undo_txn"
    /\ UNCHANGED << db, txn, cmd, resumeHash, removeUTXOs, createUTXOs, trimCounter,
                    stopping, walkerVars, applied, histVars, attempt, crashes, ringVars >>

InBlockTxn == pc \in {"blk_remove", "blk_create", "blk_resume", "blk_commit"}
InUndoTxn == pc \in {"undo_above", "undo_resume", "undo_commit"}

\* mutant of StoreFail: the writes of the failed attempt are kept, not rolled back
StoreFailKeeps ==
    /\ InBlockTxn \/ InUndoTxn
    /\ attempt < MaxAttempts
    /\ db' = txn[1]
    /\ txn' = << >>
    /\ pc' = IF InBlockTxn THEN "blk_sleep" ELSE "undo_sleep"
    /\ UNCHANGED << cmd, resumeHash, removeUTXOs, createUTXOs, trimCounter,
                    stopping, walkerVars, applied, histVars, attempt, crashes, ringVars >>

\* mutant of StoreFail: the failed event is logged and given up, no retry
StoreFailSkip ==
    /\ InBlockTxn \/ InUndoTxn
    /\ attempt < MaxAttempts
    /\ txn' = << >>
    /\ pc' = IF InBlockTxn THEN "record" ELSE "trim"
    /\ UNCHANGED << db, cmd, resumeHash, removeUTXOs, createUTXOs, trimCounter,
                    stopping, walkerVars, applied, histVars, attempt, crashes, ringVars >>

\* a statement or the COMMIT returns an error: Transact rolls back and returns
\* it; the Indexer logs it and sleeps
StoreFail ==
    /\ InBlockTxn \/ InUndoTxn
    /\ attempt < MaxAttempts
    /\ txn' = << >>
    /\ pc' = IF InBlockTxn THEN "blk_sleep" ELSE "undo_sleep"
    /\ UNCHANGED << db, cmd, resumeHash, removeUTXOs, createUTXOs, trimCounter,
                    stopping, walkerVars, applied, histVars, attempt, crashes, ringVars >>

\* trimCounter += 1; at the trim point the counter restarts and, when
\* trimHeight > 1, the trim runs
TrimHeight == cmd.Height - trimSpentAfter

\* the trim point at every event: the counter is not consulted
TrimTickAlways(interval) ==
    /\ pc = "trim"
    /\ trimCounter' = 0
    /\ pc' = IF TrimHeight > 1 THEN "trim_utxo" ELSE "loop"
    /\ pre' = db
    /\ UNCHANGED << db, txn, cmd, resumeHash, removeUTXOs, createUTXOs, stopping,
                    walkerVars, applied, trimmed, lastCommitId, crashedAt, attempt,
                    crashes, ringVars >>

\* the trim point one event late: trimCounter > interval
TrimTickLate(interval) ==
    /\ pc = "trim"
    /\ IF trimCounter + 1 > interval
       THEN /\ trimCounter' = 0
            /\ pc' = IF TrimHeight > 1 THEN "trim_utxo" ELSE "loop"
       ELSE /\ trimCounter' = trimCounter + 1
            /\ pc' = "loop"
    /\ pre' = db
    /\ UNCHANGED << db, txn, cmd, resumeHash, removeUTXOs, createUTXOs, stopping,
                    walkerVars, applied, trimmed, lastCommitId, crashedAt, attempt,
                    crashes, ringVars >>

TrimTickAt(interval) ==
    /\ pc = "trim"
    /\ IF trimCounter + 1 >= interval
       THEN /\ trimCounter' = 0
            /\ pc' = IF TrimHeight > 1 THEN "trim_utxo" ELSE "loop"
       ELSE /\ trimCounter' = trimCounter + 1
            /\ pc' = "loop"
    /\ pre' = db
    /\ UNCHANGED << db, txn, cmd, resumeHash, removeUTXOs, createUTXOs, stopping,
                    walkerVars, applied, trimmed, lastCommitId, crashedAt, attempt,
                    crashes, ringVars >>

\* the trim point with the scaled interval
TrimTick == TrimTickAt(trimIntervalBlocks)

\* i.db.TrimSpentUTXOs(trimHeight), first statement.  i.db is the store itself,
\* not a transaction: each statement commits on its own.
TrimUtxo ==
    /\ pc = "trim_utxo"
    /\ db' = TrimDeleteUtxo(db, TrimHeight)
    /\ pc' = "trim_tx"
    /\ trimmed' = TRUE
    /\ UNCHANGED << txn, cmd, resumeHash, removeUTXOs, createUTXOs, trimCounter,
                    stopping, walkerVars, applied, pre, lastCommitId, crashedAt,
                    attempt, crashes, ringVars >>

\* i.db.TrimSpentUTXOs(trimHeight), second statement
TrimTx ==
    /\ pc = "trim_tx"
    /\ db' = TrimDeleteTx(db)
    /\ pc' = "trim_done"
    /\ UNCHANGED << txn, cmd, resumeHash, removeUTXOs, createUTXOs, trimCounter,
                    stopping, walkerVars, applied, histVars, attempt, crashes, ringVars >>

\* TrimSpentUTXOs has returned nil; back to the head of the loop
TrimDone ==
    /\ pc = "trim_done"
    /\ pc' = "loop"
    /\ UNCHANGED << db, txn, cmd, resumeHash, removeUTXOs, createUTXOs, trimCounter,
                    stopping, walkerVars, applied, histVars, attempt, crashes, ringVars >>

\* a statement of the trim returns an error: it is logged, nothing else
TrimFail ==
    /\ pc \in {"trim_utxo", "trim_tx"}
    /\ pc' = "loop"
    /\ UNCHANGED << db, txn, cmd, resumeHash, removeUTXOs, createUTXOs, trimCounter,
                    stopping, walkerVars, applied, histVars, attempt, crashes, ringVars >>

(***************************************************************************)
(* Crash and restart.  The engine rolls the open transaction back; memory  *)
(* and the channel are lost.  main reads GetResumePoint and the walker     *)
(* resumes after that block: when the block is no longer on the node's     *)
(* chain the walker first announces the undo to the fork point.            *)
(***************************************************************************)
Crash ==
    /\ pc \notin {"loop", "select", "down", "stopped"}   \* while an event is being processed
    /\ crashes < MaxCrashes
    /\ crashes' = crashes + 1
    /\ crashedAt' = pc
    /\ pc' = "down"
    /\ txn' = << >>
    /\ UNCHANGED << db, cmd, resumeHash, removeUTXOs, createUTXOs, trimCounter,
                    stopping, walkerVars, applied, pre, trimmed, lastCommitId, attempt,
                    ringVars >>

\* index of the block with this hash in c; 0 for the genesis block or none
PosOfHash(c, hashBytes) ==
    IF hashBytes = << >> THEN 0
    ELSE LET is == {i \in 1..Len(c) : c[i].Hash = hashBytes[1]}
         IN  IF is = {} THEN 0 ELSE CHOOSE i \in is : TRUE

\* length of the longest common prefix of two chains
RECURSIVE ForkPoint(_, _)
ForkPoint(a, b) ==
    IF a = << >> \/ b = << >> \/ Head(a) # Head(b) THEN 0
    ELSE 1 + ForkPoint(Tail(a), Tail(b))

Restart ==
    /\ pc = "down"
    /\ LET at == PosOfHash(applied, GetResumePoint(db))
           mine == SubSeq(applied, 1, at)
           fork == ForkPoint(mine, chain)
           c == SubSeq(chain, 1, fork)
       IN  /\ chain' = c
           /\ applied' = mine
           /\ IF fork < at
              THEN /\ blocks' = << [Height |-> fork,
                                    LastProcessedBlock |-> HexEncode(TipHash(c)),
                                    Block |-> << >>,
                                    Undo |-> << [LastValidHeight |-> fork,
                                                 LastValidHash |-> TipHash(c)] >>,
                                    id |-> nextId] >>
                   /\ nextId' = nextId + 1
              ELSE /\ blocks' = << >>
                   /\ nextId' = nextId
    /\ pc' = "loop"
    /\ cmd' = NoCmd
    /\ resumeHash' = << >>
    /\ removeUTXOs' = << >>
    /\ createUTXOs' = << >>
    /\ trimCounter' = 0
    /\ stopping' = FALSE
    /\ attempt' = 0
    /\ pre' = db
    /\ crashedAt' = "none"
    /\ blockHistory' = << >>      \* the ring is memory of the process
    /\ history' = << >>
    /\ UNCHANGED << db, txn, branch, trimmed, lastCommitId, crashes >>

Next ==
    \/ WalkerBlock \/ WalkerUndo \/ WalkerIdle
    \/ LoopTest \/ Receive \/ Return \/ Stop
    \/ BlockBegin \/ BlockAbandon \/ BlockRemove \/ BlockCreate \/ BlockSetResume
    \/ BlockCommit \/ BlockSleep \/ Record
    \/ UndoBegin \/ UndoAbandon \/ UndoStep \/ UndoSetResume \/ UndoCommit \/ UndoSleep
    \/ StoreFail
    \/ TrimTick \/ TrimUtxo \/ TrimTx \/ TrimDone \/ TrimFail
    \/ Crash \/ Restart

Spec == Init /\ [][Next]_vars

\* The steps the Indexer takes on its own: Run is a goroutine the scheduler
\* keeps running, its sleeps end, and a statement the store accepts returns.
IndexerStep ==
    \/ LoopTest \/ Receive \/ Return
    \/ BlockBegin \/ BlockAbandon \/ BlockRemove \/ BlockCreate \/ BlockSetResume
    \/ BlockCommit \/ BlockSleep \/ Record
    \/ UndoBegin \/ UndoAbandon \/ UndoStep \/ UndoSetResume \/ UndoCommit \/ UndoSleep
    \/ TrimTick \/ TrimUtxo \/ TrimTx \/ TrimDone

FairSpec == Spec /\ WF_vars(IndexerStep)

\* the same program with a walker that can also send malformed hex
HexNext == Next \/ WalkerBlockBadHex

HexSpec == Init /\ [][HexNext]_vars

(***************************************************************************)
(* The store driven through its interface, one call at a time, the way     *)
(* store/pgstore_test.go drives it.  db is the store, pre the store before *)
(* the last call, cmd the last call and nextId the number of calls + 1;    *)
(* the Indexer does not run (pc = "store").  The caller keeps to what a    *)
(* chain gives: heights never go back except by UndoAbove, a transaction   *)
(* hash is created once, an output is spent once.                          *)
(***************************************************************************)
StoreMaxHeight == 4     \* highest height a call names
MaxCalls == 5           \* calls made on the store

UtxoA == [TxID |-> 1, VOut |-> 0, Value |-> 1000, Type |-> ScriptTypeP2PKH, Script |-> Addr1]
UtxoB == [TxID |-> 2, VOut |-> 0, Value |-> 2000, Type |-> ScriptTypeP2PKH, Script |-> Addr1]
UtxoC == [TxID |-> 3, VOut |-> 0, Value |-> 4000, Type |-> ScriptTypeP2PKH, Script |-> Addr1]
UtxoD == [TxID |-> 3, VOut |-> 1, Value |-> 8000, Type |-> ScriptTypeP2SH, Script |-> Addr1]

\* spec.OutPoint(txid, vout)
OutPoint(u) == [Tx |-> u.TxID, VOut |-> u.VOut]

CreateLists == {<< UtxoA >>, << UtxoB >>, << UtxoA, UtxoB >>, << UtxoC >>, << UtxoC, UtxoD >>,
                << UtxoA, UtxoB, UtxoC >>}
RemoveLists == {<< OutPoint(UtxoA) >>, << OutPoint(UtxoB) >>, << OutPoint(UtxoC) >>,
                << OutPoint(UtxoD) >>, << [Tx |-> 4, VOut |-> 0] >>,
                << [Tx |-> 4, VOut |-> 0], OutPoint(UtxoA) >>,
                << OutPoint(UtxoB), [Tx |-> 1, VOut |-> 1] >>}

NoCall == [op |-> "none", height |-> 0, list |-> << >>, clock |-> 0]

StoreInit ==
    /\ db = EmptyStore
    /\ txn = << >>
    /\ pc = "store"
    /\ cmd = NoCall
    /\ resumeHash = << >>
    /\ removeUTXOs = << >>
    /\ createUTXOs = << >>
    /\ trimCounter = 0
    /\ stopping = FALSE
    /\ blocks = << >>
    /\ chain = << >>
    /\ branch = 0
    /\ nextId = 1
    /\ applied = << >>
    /\ pre = EmptyStore
    /\ trimmed = FALSE
    /\ lastCommitId = 0
    /\ crashedAt = "none"
    /\ attempt = 0
    /\ crashes = 0
    /\ blockHistory = << >>
    /\ history = << >>

\* what a call leaves alone
storeRest == << txn, pc, resumeHash, removeUTXOs, createUTXOs, trimCounter, stopping,
               blocks, chain, branch, applied, lastCommitId, crashedAt, attempt, crashes, ringVars >>

\* a call is made: the store before it is kept, the calls are counted
Called(op, height, list, clock) ==
    /\ pc = "store"
    /\ nextId <= MaxCalls
    /\ nextId' = nextId + 1
    /\ pre' = db
    /\ cmd' = [op |-> op, height |-> height, list |-> list, clock |-> clock]
    /\ UNCHANGED storeRest

\* the heights a forward call can name: the height of the call before it, or
\* the next
Forward == {h \in 1..StoreMaxHeight : h = cmd.clock \/ h = cmd.clock + 1}

CallCreateUTXOs ==
    \E list \in CreateLists, h \in Forward :
        /\ \A i \in 1..Len(list) : TxidOfHash(db, list[i].TxID) = NULL
        /\ ~CreateUTXOs(db, list, h).err
        /\ db' = CreateUTXOs(db, list, h).s
        /\ trimmed' = trimmed
        /\ Called("create", h, list, h)

CallRemoveUTXOs ==
    \E list \in RemoveLists, h \in Forward :
        /\ \A p \in Joined(db), i \in 1..Len(list) :
              (p[2].hash = list[i].Tx /\ p[1].vout = list[i].VOut) => p[1].spent = NULL
        /\ db' = RemoveUTXOs(db, list, h)
        /\ trimmed' = trimmed
        /\ Called("remove", h, list, h)

CallUndoAbove ==
    \E h \in 0..StoreMaxHeight :
        /\ db' = UndoAbove(db, h)
        /\ trimmed' = trimmed
        /\ Called("undo", h, << >>, IF h < cmd.clock THEN h ELSE cmd.clock)

CallTrimSpentUTXOs ==
    \E h \in 1..StoreMaxHeight :
        /\ db' = TrimSpentUTXOs(db, h)
        /\ trimmed' = TRUE
        /\ Called("trim", h, << >>, cmd.clock)

CallSetResumePoint ==
    \E h \in Forward :
        /\ db' = SetResumePoint(db, << BlockHash(h, 0) >>, h)
        /\ trimmed' = trimmed
        /\ Called("resume", h, << BlockHash(h, 0) >>, h)

StoreNext ==
    \/ CallCreateUTXOs \/ CallRemoveUTXOs \/ CallUndoAbove
    \/ CallTrimSpentUTXOs \/ CallSetResumePoint

StoreSpec == StoreInit /\ [][StoreNext]_vars

(***************************************************************************)
(* The trim counter at its full width: Run receives events that are        *)
(* neither a block nor an undo (the idle branch), so that only the tail of *)
(* the loop acts, with the interval of the source.                         *)
(***************************************************************************)
TrimIntervalFull == 1000    \* const trimIntervalBlocks
MaxTrimEvents == 2000       \* events the walker sends

\* heights on either side of the cutoff test
IdleHeights == {MaxHeight - 1, MaxHeight}

\* the walker sends an event with neither Block nor Undo set, at some height
WalkerIdleMany ==
    /\ pc = "select"
    /\ nextId <= MaxTrimEvents
    /\ Len(blocks) < MaxChan
    /\ \E h \in IdleHeights :
         blocks' = Append(blocks, [Height |-> h, LastProcessedBlock |-> << >>,
                                   Block |-> << >>, Undo |-> << >>, id |-> nextId])
    /\ nextId' = nextId + 1
    /\ UNCHANGED << db, txn, idxVars, stopping, chain, branch, applied, histVars,
                    attempt, crashes, ringVars >>

\* the trim point with the interval of the source
TrimTickFull == TrimTickAt(TrimIntervalFull)

TrimNext ==
    \/ WalkerIdleMany \/ LoopTest \/ Receive \/ TrimTickFull
    \/ TrimUtxo \/ TrimTx \/ TrimDone

TrimSpec == Init /\ [][TrimNext]_vars

(***************************************************************************)
(* The block history at its full width: Run receives more Block events     *)
(* than the ring holds (blocks with nothing to index, so that only the     *)
(* recording acts), while the API reads the ring.                          *)
(***************************************************************************)
MaxRingEvents == 12     \* Block events the walker sends

\* the n-th block: one or two coinbase transactions with no output worth indexing
RingBlock(n) ==
    LET t(k) == [TxID |-> k, VIn |-> << CoinbaseIn >>, VOut |-> << NonStd >>]
    IN  [Hash |-> BlockHash(n, 0),
         Tx |-> IF n % 2 = 0 THEN << t(2 * n) >> ELSE << t(2 * n), t(2 * n + 1) >>]

\* the walker sends the next Block event
WalkerBlockMany ==
    /\ pc = "select"
    /\ nextId <= MaxRingEvents
    /\ blocks = << >>
    /\ blocks' = << [Height |-> nextId, LastProcessedBlock |-> HexEncode(BlockHash(nextId, 0)),
                     Block |-> << RingBlock(nextId) >>, Undo |-> << >>, id |-> nextId] >>
    /\ nextId' = nextId + 1
    /\ UNCHANGED << db, txn, idxVars, stopping, chain, branch, applied, histVars,
                    attempt, crashes, ringVars >>

\* the API calls GetBlockHistory (under the reader lock) and keeps what it returns
ReadHistory ==
    /\ history # GetBlockHistory(blockHistory)
    /\ history' = GetBlockHistory(blockHistory)
    /\ UNCHANGED << db, txn, idxVars, stopping, walkerVars, applied, histVars,
                    attempt, crashes, blockHistory >>

RingNext ==
    \/ WalkerBlockMany \/ LoopTest \/ Receive \/ Record \/ TrimTick
    \/ TrimUtxo \/ TrimTx \/ TrimDone \/ ReadHistory

RingSpec == Init /\ [][RingNext]_vars

(***************************************************************************)
(* A chain long enough for a trim to delete rows: Block events up to       *)
(* height 4 and idle events, with the trim point every second event, so    *)
(* that trims run at heights 3 and 4 (trimHeight > 1), after a Block event *)
(* or after an idle one, and each statement of the trim may fail.          *)
(***************************************************************************)
MaxLagHeight == 4       \* highest block height the walker emits
MaxLagEvents == 6       \* events the walker emits
LagInterval == 2        \* events between two trim points

\* the walker sends the next block of the chain, or an idle event at the tip
WalkerLag ==
    /\ pc = "select"
    /\ nextId <= MaxLagEvents
    /\ Len(blocks) < MaxChan
    /\ \/ /\ Len(chain) < MaxLagHeight
          /\ \E b \in NextBlocks(chain, branch) :
               /\ chain' = Append(chain, b)
               /\ blocks' = Append(blocks, [Height |-> Len(chain) + 1,
                                            LastProcessedBlock |-> HexEncode(b.Hash),
                                            Block |-> << b >>, Undo |-> << >>, id |-> nextId])
       \/ /\ chain' = chain
          /\ blocks' = Append(blocks, [Height |-> Len(chain),
                                       LastProcessedBlock |-> HexEncode(TipHash(chain)),
                                       Block |-> << >>, Undo |-> << >>, id |-> nextId])
    /\ nextId' = nextId + 1
    /\ UNCHANGED << db, txn, idxVars, stopping, branch, applied, histVars, attempt, crashes, ringVars >>

LagNext ==
    \/ WalkerLag \/ LoopTest \/ Receive
    \/ BlockBegin \/ BlockRemove \/ BlockCreate \/ BlockSetResume \/ BlockCommit \/ Record
    \/ TrimTickAt(LagInterval) \/ TrimUtxo \/ TrimTx \/ TrimDone \/ TrimFail

LagSpec == Init /\ [][LagNext]_vars

(***************************************************************************)
(* Transact(fn) step by step (doTxn).  txn is the sequence of transactions *)
(* begun and neither committed nor rolled back: `defer tx.Rollback()` runs *)
(* when doTxn returns, so a transaction whose work failed stays open over  *)
(* the retries.  cmd is the frame of the call: the height fn writes, the   *)
(* backend, limit, the outcomes of the last attempt and the error returned.*)
(***************************************************************************)
TxnLimit == 120             \* limit := 120
Backends == {"sqlite3", "postgres"}
Outcomes == {"nil", "error", "conflict"}
TxnPcs == {"txn_begin", "txn_work", "txn_commit", "txn_sleep"}

\* the store Transact is called on: fresh, or holding a resume point
TxnStores == {EmptyStore, SetResumePoint(EmptyStore, << BlockHash(1, 0) >>, 1)}

\* fn: writes the resume point of the height the frame names
Fn(s, height) == SetResumePoint(s, << BlockHash(height, 0) >>, height)

\* IsConflict: the error is a sqlite3.Error with code ErrBusy or ErrLocked
IsConflict(o, backend) == o = "conflict" /\ backend = "sqlite3"

\* db.SetMaxOpenConns(1) on sqlite3: Begin gets a connection only when no
\* transaction holds it
ConnFree == cmd.backend = "sqlite3" => txn = << >>

TxnInit ==
    /\ db \in TxnStores
    /\ pre = db
    /\ txn = << >>
    /\ pc = "txn_begin"
    /\ \E h \in 2..3, b \in Backends :
         cmd = [op |-> "transact", height |-> h, backend |-> b, limit |-> TxnLimit,
                work |-> "none", commit |-> "none", err |-> "none"]
    /\ resumeHash = << >>
    /\ removeUTXOs = << >>
    /\ createUTXOs = << >>
    /\ trimCounter = 0
    /\ stopping = FALSE
    /\ blocks = << >>
    /\ chain = << >>
    /\ branch = 0
    /\ nextId = 1
    /\ applied = << >>
    /\ trimmed = FALSE
    /\ lastCommitId = 0
    /\ crashedAt = "none"
    /\ attempt = 0
    /\ crashes = 0
    /\ blockHistory = << >>
    /\ history = << >>

txnRest == << resumeHash, removeUTXOs, createUTXOs, trimCounter, stopping, blocks, chain,
             branch, nextId, applied, pre, trimmed, lastCommitId, crashedAt, crashes, ringVars >>

\* tx, err := s._db.Begin()
TxnBegin ==
    /\ pc = "txn_begin"
    /\ ConnFree
    /\ txn' = Append(txn, db)
    /\ pc' = "txn_work"
    /\ attempt' = attempt + 1
    /\ cmd' = [cmd EXCEPT !.work = "none", !.commit = "none"]
    /\ UNCHANGED << db, txnRest >>

\* Begin returns an error: return dbErr(err, ...); the deferred rollbacks run
TxnBeginFail ==
    /\ pc = "txn_begin"
    /\ ConnFree
    /\ txn' = << >>
    /\ pc' = "txn_returned"
    /\ cmd' = [cmd EXCEPT !.err = "error"]
    /\ UNCHANGED << db, attempt, txnRest >>

\* after an error o of this attempt: `limit--; if limit != 0 { Sleep; continue }`
\* for a conflict, `return err` otherwise.  `open` is what stays open.
TxnAfterError(o, open) ==
    IF IsConflict(o, cmd.backend) /\ cmd.limit - 1 # 0
    THEN [pc |-> "txn_sleep", txn |-> open, err |-> "none", limit |-> cmd.limit - 1]
    ELSE [pc |-> "txn_returned", txn |-> << >>, err |-> o,
          limit |-> IF IsConflict(o, cmd.backend) THEN cmd.limit - 1 ELSE cmd.limit]

\* err = work(tx): fn runs in the transaction and returns nil or an error
TxnWork ==
    /\ pc = "txn_work"
    /\ \E o \in Outcomes :
         LET ran == [txn EXCEPT ![Len(txn)] = Fn(@, cmd.height)]
         IN  IF o = "nil"
             THEN /\ txn' = ran
                  /\ pc' = "txn_commit"
                  /\ cmd' = [cmd EXCEPT !.work = o]
             ELSE LET a == TxnAfterError(o, ran)
                  IN  /\ txn' = a.txn
                      /\ pc' = a.pc
                      /\ cmd' = [cmd EXCEPT !.work = o, !.err = a.err, !.limit = a.limit]
    /\ UNCHANGED << db, attempt, txnRest >>

\* err = tx.Commit(): on success the transaction's writes are the store; on an
\* error the transaction is over and its writes are gone
TxnCommit ==
    /\ pc = "txn_commit"
    /\ \E o \in Outcomes :
         IF o = "nil"
         THEN /\ db' = txn[Len(txn)]
              /\ txn' = << >>
              /\ pc' = "txn_returned"
              /\ cmd' = [cmd EXCEPT !.commit = o, !.err = "nil"]
         ELSE LET a == TxnAfterError(o, SubSeq(txn, 1, Len(txn) - 1))
              IN  /\ db' = db
                  /\ txn' = a.txn
                  /\ pc' = a.pc
                  /\ cmd' = [cmd EXCEPT !.commit = o, !.err = a.err, !.limit = a.limit]
    /\ UNCHANGED << attempt, txnRest >>

\* s.Sleep(250 * time.Millisecond); continue
TxnSleep ==
    /\ pc = "txn_sleep"
    /\ pc' = "txn_begin"
    /\ UNCHANGED << db, txn, cmd, attempt, txnRest >>

TxnNext == TxnBegin \/ TxnBeginFail \/ TxnWork \/ TxnCommit \/ TxnSleep

TxnSpec == TxnInit /\ [][TxnNext]_vars

(***************************************************************************)
(* Run on one Block event of any shape: inputs with and without the        *)
(* all-zero hash, repeated inputs, outputs of every value class and every  *)
(* script type doge.ClassifyScript yields, one or two transactions.        *)
(***************************************************************************)
ListIns == {CoinbaseIn, [TxID |-> Zeroes, VOut |-> 1],
            [TxID |-> 5, VOut |-> 0], [TxID |-> 5, VOut |-> 1]}
InSeqs == {<< a >> : a \in ListIns} \cup {<< a, b >> : a, b \in ListIns}

ListValues == {0, 1, DUST_LIMIT}
ListTypes == ScriptTypeP2PK..ScriptTypeNonStandard
ListOuts == [Value : ListValues, Type : ListTypes, Script : {Addr1}]
OutSeqs == {<< o >> : o \in ListOuts} \cup {<< o, Pay(Addr1, DUST_LIMIT) >> : o \in ListOuts}

\* a second transaction, spending the first output of the first
SpendFirst == [TxID |-> 2, VIn |-> << [TxID |-> 1, VOut |-> 0] >>,
               VOut |-> << Pay(Addr2, DUST_LIMIT) >>]

ListBlocks ==
    {[Hash |-> BlockHash(1, 0), Tx |-> << [TxID |-> 1, VIn |-> i, VOut |-> o] >> \o rest] :
        i \in InSeqs, o \in OutSeqs, rest \in {<< >>, << SpendFirst >>}}

\* the walker has sent one Block event at height 1
ListInit ==
    \E b \in ListBlocks :
        /\ db = EmptyStore
        /\ txn = << >>
        /\ pc = "loop"
        /\ cmd = NoCmd
        /\ resumeHash = << >>
        /\ removeUTXOs = << >>
        /\ createUTXOs = << >>
        /\ trimCounter = 0
        /\ stopping = FALSE
        /\ blocks = << [Height |-> 1, LastProcessedBlock |-> HexEncode(b.Hash),
                        Block |-> << b >>, Undo |-> << >>, id |-> 1] >>
        /\ chain = << b >>
        /\ branch = 0
        /\ nextId = 2
        /\ applied = << >>
        /\ pre = EmptyStore
        /\ trimmed = FALSE
        /\ lastCommitId = 0
        /\ crashedAt = "none"
        /\ attempt = 0
        /\ crashes = 0
        /\ blockHistory = << >>
        /\ history = << >>
    /\ blockHistory = << >>
    /\ history = << >>

ListNext ==
    \/ LoopTest \/ Receive \/ BlockBegin \/ BlockRemove \/ BlockCreate
    \/ BlockSetResume \/ BlockCommit \/ Record \/ TrimTick

ListSpec == ListInit /\ [][ListNext]_vars

(***************************************************************************)
(* ClassifyAndCompactScript: scripts are sequences of bytes at their real  *)
(* lengths; script[i] of the code is At(script, i).  A nil slice and an    *)
(* empty slice are both the empty sequence.                                *)
(***************************************************************************)
MAX_OP_RETURN_RELAY == 83   \* from Core IsStandard in policy.cpp

MaskP2PK == 1
MaskP2PKH == 2
MaskP2SH == 4
MaskMultiSig == 8
MaskP2PKHW == 16
MaskP2SHW == 32
MaskNullData == 64
MaskNonStandard == 128

\* opcodes of the doge package
OP_1 == 81
OP_3 == 83
OP_RETURN == 106
OP_DUP == 118
OP_EQUAL == 135
OP_EQUALVERIFY == 136
OP_HASH160 == 169
OP_CHECKSIG == 172
OP_CHECKMULTISIG == 174

At(script, i) == script[i + 1]

SliceFromNext(script, from, to) == SubSeq(script, from + 2, to)

\* script[from:to]
Slice(script, from, to) == SubSeq(script, from + 1, to)

\* a & b on non-negative integers
RECURSIVE BitAnd(_, _)
BitAnd(a, b) ==
    IF a = 0 \/ b = 0 THEN 0
    ELSE (a % 2) * (b % 2) + 2 * BitAnd(a \div 2, b \div 2)

MaskedAlways(mask, bits) == TRUE

\* (mask & bits) != 0
Masked(mask, bits) == BitAnd(mask, bits) # 0

isOP123(op) == op >= OP_1 /\ op <= OP_3

decodeOP_N(op) == op - (OP_1 - 1)

keySizeAnyPush(script, ofs, endOfKeys) ==
    IF ofs + At(script, ofs) + 1 <= endOfKeys THEN At(script, ofs) + 1 ELSE 0

\* one turn of the key loop: the bytes the key at ofs takes, 0 when no key is there
keySize(script, ofs, endOfKeys) ==
    IF At(script, ofs) = 65 /\ ofs + 66 <= endOfKeys THEN 66
    ELSE IF At(script, ofs) = 33 /\ ofs + 34 <= endOfKeys THEN 34
    ELSE 0

\* the key loop: ofs and N_Keys when it ends
RECURSIVE scanKeys(_, _, _, _)
scanKeys(script, ofs, N_Keys, endOfKeys) ==
    IF ofs < endOfKeys /\ N_Keys > 0
    THEN IF keySize(script, ofs, endOfKeys) = 0
         THEN [ofs |-> 0, N_Keys |-> N_Keys]
         ELSE scanKeys(script, ofs + keySize(script, ofs, endOfKeys), N_Keys - 1, endOfKeys)
    ELSE [ofs |-> ofs, N_Keys |-> N_Keys]

\* OP_m <pubkey*n> OP_n OP_CHECKMULTISIG with all data used and all N keys found
StandardMultiSig(script) ==
    LET L == Len(script)
    IN  /\ L >= 3 + 34
        /\ At(script, L - 1) = OP_CHECKMULTISIG
        /\ isOP123(At(script, L - 2))
        /\ isOP123(At(script, 0))
        /\ decodeOP_N(At(script, 0)) <= decodeOP_N(At(script, L - 2))
        /\ LET end == scanKeys(script, 1, decodeOP_N(At(script, L - 2)), L - 2)
           IN  end.ofs = L - 2 /\ end.N_Keys = 0

ClassifyAndCompactScript(script, mask) ==
    LET L == Len(script)
        Ret(t, compact) == [type |-> t, payload |-> compact]
        Ignore == Ret(ScriptTypeNone, << >>)
    IN  IF L > 0 /\ At(script, 0) = OP_RETURN /\ L <= MAX_OP_RETURN_RELAY
        THEN IF Masked(mask, MaskNullData)
             THEN Ret(ScriptTypeNullData, Slice(script, 1, L))
             ELSE Ignore
        ELSE IF /\ L = 25
                /\ At(script, 0) = OP_DUP /\ At(script, 1) = OP_HASH160 /\ At(script, 2) = 20
                /\ At(script, 23) = OP_EQUALVERIFY /\ At(script, 24) = OP_CHECKSIG
        THEN IF Masked(mask, MaskP2PKH)
             THEN Ret(ScriptTypeP2PKH, Slice(script, 3, 23))
             ELSE Ignore
        ELSE IF L = 35 /\ At(script, 0) = 33 /\ At(script, 34) = OP_CHECKSIG
        THEN IF Masked(mask, MaskP2PK)
             THEN Ret(ScriptTypeP2PK, Slice(script, 1, 34))
             ELSE Ignore
        ELSE IF L = 67 /\ At(script, 0) = 65 /\ At(script, 66) = OP_CHECKSIG
        THEN IF Masked(mask, MaskP2PK)
             THEN Ret(ScriptTypeP2PK, Slice(script, 1, 66))
             ELSE Ignore
        ELSE IF L = 23 /\ At(script, 0) = OP_HASH160 /\ At(script, 1) = 20
                /\ At(script, 22) = OP_EQUAL
        THEN IF Masked(mask, MaskP2SH)
             THEN Ret(ScriptTypeP2SH, Slice(script, 2, 22))
             ELSE Ignore
        ELSE IF Masked(mask, MaskMultiSig + MaskNonStandard) /\ StandardMultiSig(script)
        THEN IF Masked(mask, MaskMultiSig)
             THEN Ret(ScriptTypeMultiSig, Slice(script, 0, L - 1))
             ELSE Ignore
        ELSE IF Masked(mask, MaskNonStandard)
        THEN Ret(ScriptTypeNonStandard, << >>)   \* compact is built and nil returned
        ELSE Ignore

\* doge.ExpandScript: the locking script of a compact payload
ExpandScript(t, compact) ==
    IF t = ScriptTypeP2PKH
    THEN << OP_DUP, OP_HASH160, 20 >> \o compact \o << OP_EQUALVERIFY, OP_CHECKSIG >>
    ELSE IF t = ScriptTypeP2SH THEN << OP_HASH160, 20 >> \o compact \o << OP_EQUAL >>
    ELSE IF t = ScriptTypeMultiSig THEN compact \o << OP_CHECKMULTISIG >>
    ELSE compact

MaxKeys == 3        \* pushes between OP_m and OP_n
MaxOpN == 4         \* m and n run over OP_1..OP_4

Fill(n, b) == [i \in 1..n |-> b]

\* sequences of push lengths: compressed keys, uncompressed keys, and a 32-byte push
KeySeqs == UNION {[1..k -> {33, 65}] : k \in 1..MaxKeys} \cup {<< 32 >>, << 33, 32 >>}

RECURSIVE Pushes(_)
Pushes(ks) ==
    IF ks = << >> THEN << >> ELSE << Head(ks) >> \o Fill(Head(ks), 2) \o Pushes(Tail(ks))

MultiSigScript(m, n, ks) ==
    << OP_1 + m - 1 >> \o Pushes(ks) \o << OP_1 + n - 1, OP_CHECKMULTISIG >>

Scripts ==
    {<< >>, << OP_RETURN >>, << OP_DUP >>, << OP_1, OP_1, OP_CHECKMULTISIG >>}
    \cup {<< OP_RETURN >> \o Fill(n - 1, 1) : n \in {23, 25, 35, 67, 83, 84}}
    \cup {<< OP_DUP, OP_HASH160, n >> \o Fill(20, 7) \o << OP_EQUALVERIFY, last >> :
             n \in {19, 20}, last \in {OP_CHECKSIG, OP_EQUAL}}
    \cup {<< OP_DUP, OP_HASH160, 20 >> \o Fill(21, 7) \o << OP_EQUALVERIFY, OP_CHECKSIG >>}
    \cup {<< n >> \o Fill(k, 3) \o << last >> :
             n \in {33, 65}, k \in {33, 65}, last \in {OP_CHECKSIG, OP_EQUAL}}
    \cup {<< OP_HASH160, n >> \o Fill(20, 9) \o << last >> :
             n \in {19, 20}, last \in {OP_EQUAL, OP_CHECKSIG}}
    \cup {MultiSigScript(m, n, ks) : m \in 1..MaxOpN, n \in 1..MaxOpN, ks \in KeySeqs}
    \cup {MultiSigScript(1, 1, << 33 >>) \o << OP_CHECKSIG >>}

ScriptInit ==
    /\ db = EmptyStore
    /\ pre = db
    /\ txn = << >>
    /\ pc = "classify"
    /\ \E s \in Scripts, mask \in 0..255 :
         cmd = [op |-> "classify", script |-> s, mask |-> mask,
                type |-> ScriptTypeNone, payload |-> << >>]
    /\ resumeHash = << >>
    /\ removeUTXOs = << >>
    /\ createUTXOs = << >>
    /\ trimCounter = 0
    /\ stopping = FALSE
    /\ blocks = << >>
    /\ chain = << >>
    /\ branch = 0
    /\ nextId = 1
    /\ applied = << >>
    /\ trimmed = FALSE
    /\ lastCommitId = 0
    /\ crashedAt = "none"
    /\ attempt = 0
    /\ crashes = 0
    /\ blockHistory = << >>
    /\ history = << >>

\* typ, compact := ClassifyAndCompactScript(script, mask)
Classify ==
    /\ pc = "classify"
    /\ cmd' = [cmd EXCEPT !.type = ClassifyAndCompactScript(cmd.script, cmd.mask).type,
                          !.payload = ClassifyAndCompactScript(cmd.script, cmd.mask).payload]
    /\ pc' = "classified"
    /\ UNCHANGED << db, txn, attempt, txnRest >>

ScriptSpec == ScriptInit /\ [][Classify]_vars

(***************************************************************************)
(* The web API: one request, dispatched by the mux to its handler.  The    *)
(* response is the status the client sees (200 when the handler never      *)
(* calls WriteHeader), the Allow header, the kind of body, and the store   *)
(* methods the handler called.                                             *)
(***************************************************************************)
sendOptions(method, options) ==
    IF method = "OPTIONS"
    THEN [status |-> 204, allow |-> options, body |-> ""]
    ELSE [status |-> 405, allow |-> options, body |-> "method not allowed"]

sendJson(options) == [status |-> 200, allow |-> options, body |-> "json"]

sendError(statusCode, options) == [status |-> statusCode, allow |-> options, body |-> "error"]

WebInit ==
    /\ db = EmptyStore
    /\ pre = db
    /\ txn = << >>
    /\ pc = "request"
    /\ \E path \in {"/health", "/balance", "/utxo", "/height", "/blocks"},
          method \in {"GET", "OPTIONS", "POST"},
          address \in {"", "invalid", "valid"},
          storeErr \in BOOLEAN :
         cmd = [op |-> "http", path |-> path, method |-> method, address |-> address,
                storeErr |-> storeErr, queries |-> << >>,
                resp |-> [status |-> 0, allow |-> "", body |-> ""]]
    /\ resumeHash = << >>
    /\ removeUTXOs = << >>
    /\ createUTXOs = << >>
    /\ trimCounter = 0
    /\ stopping = FALSE
    /\ blocks = << >>
    /\ chain = << >>
    /\ branch = 0
    /\ nextId = 1
    /\ applied = << >>
    /\ trimmed = FALSE
    /\ lastCommitId = 0
    /\ crashedAt = "none"
    /\ attempt = 0
    /\ crashes = 0
    /\ blockHistory = << >>
    /\ history = << >>

\* the handler returns: queries are the store methods it called
Respond(queries, resp) ==
    /\ cmd' = [cmd EXCEPT !.queries = queries, !.resp = resp]
    /\ pc' = "responded"
    /\ UNCHANGED << db, txn, attempt, txnRest >>

\* a handler with `switch r.Method` whose GET case reads the address and calls the store
AddressQuery(query) ==
    IF cmd.method = "GET"
    THEN IF cmd.address # "valid"
         THEN Respond(<< >>, sendError(400, "GET, OPTIONS"))
         ELSE Respond(<< query >>, IF cmd.storeErr THEN sendError(500, "GET, OPTIONS")
                                   ELSE sendJson("GET, OPTIONS"))
    ELSE IF cmd.method = "OPTIONS"
    THEN Respond(<< >>, sendOptions(cmd.method, "GET, OPTIONS"))
    ELSE Respond(<< >>, [status |-> 200, allow |-> "", body |-> ""])

healthCheck ==
    /\ pc = "request" /\ cmd.path = "/health"
    /\ Respond(<< "GetResumePoint" >>,
               IF cmd.storeErr THEN sendError(500, "GET") ELSE sendJson("GET"))

getBalance ==
    /\ pc = "request" /\ cmd.path = "/balance"
    /\ AddressQuery("GetBalance")

getUtxo ==
    /\ pc = "request" /\ cmd.path = "/utxo"
    /\ AddressQuery("FindUTXOs")

getHeight ==
    /\ pc = "request" /\ cmd.path = "/height"
    /\ IF cmd.method = "GET"
       THEN Respond(<< "GetCurrentHeight" >>,
                    IF cmd.storeErr THEN sendError(500, "GET, OPTIONS")
                    ELSE sendJson("GET, OPTIONS"))
       ELSE IF cmd.method = "OPTIONS"
       THEN Respond(<< >>, sendOptions(cmd.method, "GET, OPTIONS"))
       ELSE Respond(<< >>, [status |-> 200, allow |-> "", body |-> ""])

getRecentBlocks ==
    /\ pc = "request" /\ cmd.path = "/blocks"
    /\ IF cmd.method = "GET"
       THEN Respond(<< >>, sendJson("GET, OPTIONS"))
       ELSE IF cmd.method = "OPTIONS"
       THEN Respond(<< >>, sendOptions(cmd.method, "GET, OPTIONS"))
       ELSE Respond(<< >>, [status |-> 200, allow |-> "", body |-> ""])

WebNext == healthCheck \/ getBalance \/ getUtxo \/ getHeight \/ getRecentBlocks

WebSpec == WebInit /\ [][WebNext]_vars

(***************************************************************************)
(* Properties.                                                             *)
(***************************************************************************)
Kinds == {ScriptTypeP2PKH, ScriptTypeNonStandard}
Addrs == {Addr1, Addr2}

BlockPcs == {"blk_txn", "blk_remove", "blk_create", "blk_resume", "blk_commit",
             "blk_sleep", "record"}
UndoPcs == {"undo_txn", "undo_above", "undo_resume", "undo_commit", "undo_sleep"}

\* the transaction of the current event has committed
Committed == lastCommitId = cmd.id /\ cmd.id # 0

\* C1: while a Block event is processed, what another connection reads is the
\* store before the event or the store after the whole event (removals,
\* creations and cursor together), never anything in between.
C1_BlockVisibleWhole ==
    (pc \in BlockPcs) => (db = pre \/ db = EventPost(pre, cmd))

\* C1 witness: a block transaction with removals, creations and the cursor
\* written in its working copy, none of it visible yet
C1_Witness ==
    /\ pc = "blk_commit"
    /\ removeUTXOs # << >> /\ createUTXOs # << >>
    /\ \E u \in txn[1].utxo : u.spent = cmd.Height
    /\ \E u \in txn[1].utxo : u.born = cmd.Height
    /\ txn[1].resume # db.resume
    /\ db = pre

\* C2: after a crash during a Block or Undo event the persisted store is the
\* store before the event or the store after the whole event.
C2_CrashWhole ==
    (pc = "down" /\ crashedAt \in BlockPcs \cup UndoPcs \cup {"trim"})
        => (db = pre \/ db = EventPost(pre, cmd))

\* C2 witness: the crash came with the whole transaction written and not
\* committed; the store is as before the event
C2_Witness ==
    /\ pc = "down"
    /\ crashedAt \in {"blk_commit", "undo_commit"}
    /\ EventPost(pre, cmd) # pre
    /\ db = pre

\* C3 (as claimed): once a Block event is finished without cancellation, the
\* persisted cursor is (resume hash, height) of the event, empty lists or not.
C3_CursorAfterEveryBlock ==
    (pc = "record" /\ ~stopping)
        => db.resume = << [hash |-> resumeHash, height |-> cmd.Height] >>

\* C4 (as claimed): an output created and spent within one block is, after the
\* commit, a row with spent_height = the block's height.
C4_SpentInSameBlock ==
    (pc = "record" /\ Committed)
        => \A i \in 1..Len(createUTXOs) :
             (\E j \in 1..Len(removeUTXOs) :
                 /\ removeUTXOs[j].Tx = createUTXOs[i].TxID
                 /\ removeUTXOs[j].VOut = createUTXOs[i].VOut)
             => \E o \in UtxoSet(db) :
                 /\ o.hash = createUTXOs[i].TxID
                 /\ o.vout = createUTXOs[i].VOut
                 /\ o.spent = cmd.Height

\* C5: once an Undo event to height h has committed (and no trim has run on
\* the store), the utxo set is the one that applying the first h blocks alone
\* to an empty store gives: same outputs, values and spent heights.
C5_UndoGivesPrefix ==
    (pc = "trim" /\ cmd.Undo # << >> /\ Committed /\ ~trimmed)
        => UtxoSet(db) = UtxoSet(ApplyBlocks(EmptyStore, applied, 0))

\* C5 witness: the undo removed outputs created above h and re-activated an
\* output spent above h
C5_Witness ==
    /\ pc = "trim" /\ cmd.Undo # << >> /\ Committed /\ ~trimmed
    /\ \E o \in UtxoSet(pre) : o.height > cmd.Height
    /\ \E o \in UtxoSet(pre) : o.height <= cmd.Height /\ o.spent # NULL
                                 /\ o.spent > cmd.Height
    /\ \E o \in UtxoSet(db) : o.spent = NULL

\* C6 (as claimed): the trim the Indexer runs changes no answer of FindUTXOs
\* or GetBalance.
C6_TrimKeepsAnswers ==
    (pc = "trim_done")
        => \A k \in Kinds, a \in Addrs :
             /\ FindUTXOs(db, k, a) = FindUTXOs(pre, k, a)
             /\ GetBalance(db, k, a, Confirmations) = GetBalance(pre, k, a, Confirmations)

\* C7 (as claimed): every utxo row has its tx row.
C7_UtxoHasTx ==
    \A u \in db.utxo : \E t \in db.tx : t.txid = u.txid

\* C8 (as claimed): with the cursor at height H, every utxo row was created at
\* a height <= H and every spent height is <= H.
C8_NothingAboveCursor ==
    (db.resume # << >>)
        => \A u \in db.utxo :
             /\ u.born <= ResumeHeight(db)
             /\ (u.spent # NULL => u.spent <= ResumeHeight(db))

\* C9: the persisted resume height goes down only in the commit of an Undo event.
C9_HeightMonotone ==
    [][(db.resume # << >> /\ db'.resume # << >>
          /\ ResumeHeight(db') < ResumeHeight(db))
       => (pc = "undo_commit" /\ cmd.Undo # << >>)]_vars

\* C9 witness: a Block event has committed on top of an earlier commit, and the
\* height went up
C9_Witness ==
    /\ pc = "record" /\ Committed
    /\ pre.resume # << >>
    /\ ResumeHeight(db) > ResumeHeight(pre)

\* C10: commits happen in channel order: the channel position of a committed
\* event is above that of every event committed before it.
C10_CommitInChannelOrder ==
    [][lastCommitId' # lastCommitId => lastCommitId' > lastCommitId]_vars

\* C10 witness: two events were in the channel together and the second has
\* committed after the first
C10_Witness ==
    /\ Committed
    /\ pc \in {"record", "trim"}
    /\ pre.resume # << >>
    /\ db # pre
    /\ blocks # << >>

\* the event in cmd has a store transaction to run
EventNeedsTxn == Dispatch(cmd, removeUTXOs, createUTXOs) \in {"blk_txn", "undo_txn"}

C12_BadHexNoAdvance ==
    (cmd.id # 0 /\ hexDecodeString(cmd.LastProcessedBlock).err
        /\ pc \in BlockPcs \cup UndoPcs \cup {"trim"})
        => db = pre

\* C13: no block is applied twice: no transaction hash has two tx rows and no
\* output (transaction hash, vout) has two utxo rows, whatever attempts failed
\* before the commit and whatever the walker re-emitted after a restart.
C13_AtMostOnce ==
    /\ \A a, b \in db.tx : a.hash = b.hash => a = b
    /\ \A p, q \in Joined(db) :
         (p[2].hash = q[2].hash /\ p[1].vout = q[1].vout) => p = q

\* C13 witness: after a crash and restart, a re-emitted block has committed on
\* its second attempt and its rows are in the store
C13_Witness ==
    /\ crashes = 1 /\ pc = "record" /\ Committed
    /\ attempt = 2
    /\ \E p \in Joined(db) : p[2].height = cmd.Height /\ p[1].born = cmd.Height

QueryKinds == {ScriptTypeP2PKH, ScriptTypeP2SH}
QueryAddrs == {Addr1, Addr2}
QueryConfs == 0..2

RECURSIVE SumRows(_)
\* sum of the values of a set of utxo rows
SumRows(rows) ==
    IF rows = {} THEN 0
    ELSE LET r == CHOOSE x \in rows : TRUE
         IN  r.value + SumRows(rows \ {r})

\* the utxo rows created with (kind, address)
RowsOf(s, kind, address) == {u \in s.utxo : u.kind = kind /\ u.script = address}

\* C15 (as claimed): with resume height H, GetBalance(kind, address, c) is
\* available = the unspent rows of the address created below H - c,
\* incoming = the unspent rows created at or above H - c,
\* outgoing = the rows spent at or above H - c, each summed by value.
C15_BalanceSums ==
    (pc = "store" /\ db.resume # << >>)
        => \A k \in QueryKinds, a \in QueryAddrs, c \in QueryConfs :
             LET H == ResumeHeight(db)
                 mine == RowsOf(db, k, a)
             IN  GetBalance(db, k, a, c) =
                   [Available |-> SumRows({u \in mine : u.spent = NULL /\ u.born < H - c}),
                    Incoming |-> SumRows({u \in mine : u.spent = NULL /\ u.born >= H - c}),
                    Outgoing |-> SumRows({u \in mine : u.spent # NULL /\ u.spent >= H - c})]

\* C16 (as claimed): FindUTXOs(kind, address) returns exactly the outputs created
\* with that kind and address whose spent height is null.
C16_FindExact ==
    (pc = "store")
        => \A k \in QueryKinds, a \in QueryAddrs :
             FindUTXOs(db, k, a) =
               {[TxID |-> u.of, VOut |-> u.vout, Value |-> u.value, Type |-> k,
                 Script |-> u.script] : u \in {r \in RowsOf(db, k, a) : r.spent = NULL}}

\* C17 (as claimed): UndoAbove(h) deletes every utxo row created above h together
\* with its tx row, clears the spent height of every row spent above h, and leaves
\* every other row unchanged.
C17_UndoAboveContract ==
    (pc = "store" /\ cmd.op = "undo")
        => LET h == cmd.height
           IN  /\ db.utxo = {IF u.spent # NULL /\ u.spent > h
                               THEN [u EXCEPT !.spent = NULL] ELSE u :
                                 u \in {r \in pre.utxo : r.born <= h}}
               /\ db.tx = {t \in pre.tx : t.height <= h}

\* C18 (as claimed): with A spent at height h - 1 and B spent at height h,
\* TrimSpentUTXOs(h) removes both A and B from storage; afterwards FindUTXOs for
\* the address returns the still-unspent rows and GetBalance.available is unchanged.
C18_TrimRemovesBoth ==
    (pc = "store" /\ cmd.op = "trim")
        => \A a, b \in pre.utxo :
             (a.spent = cmd.height - 1 /\ b.spent = cmd.height /\ cmd.height >= 2)
                => /\ a \notin db.utxo
                   /\ b \notin db.utxo
                   /\ \A k \in QueryKinds, s \in QueryAddrs :
                        /\ FindUTXOs(db, k, s) = FindUTXOs(pre, k, s)
                        /\ \A c \in QueryConfs :
                             GetBalance(db, k, s, c).Available
                                = GetBalance(pre, k, s, c).Available

\* C19: the resume table holds no row before the first SetResumePoint and exactly
\* one row after any number of them; GetResumePoint returns an empty hash and
\* GetCurrentHeight returns 0 on a fresh store, and afterwards they return the hash
\* and height of the most recent SetResumePoint.  (By induction over the calls:
\* every SetResumePoint leaves one row holding its arguments, and no other call
\* touches the table.)
C19_ResumeSingleRow ==
    /\ [](pc = "store" =>
            /\ Len(db.resume) <= 1
            /\ (cmd.op = "none" =>
                   Len(db.resume) = 0 /\ GetResumePoint(db) = << >> /\ GetCurrentHeight(db) = 0))
    /\ [][IF cmd'.op = "resume"
           THEN /\ Len(db'.resume) = 1
                /\ GetResumePoint(db') = cmd'.list
                /\ GetCurrentHeight(db') = cmd'.height
           ELSE db'.resume = db.resume]_vars

C19_Witness ==
    /\ pc = "store" /\ cmd.op = "resume"
    /\ pre.resume # << >> /\ pre.resume[1].height # cmd.height
    /\ Len(db.resume) = 1
    /\ GetCurrentHeight(db) = cmd.height /\ GetResumePoint(db) = cmd.list

\* the trim point of an interval: the event just received is the n-th,
\* with n a multiple of the interval (cmd.id is the event's position)
TrimPoint(interval) == cmd.id % interval = 0

\* the counter moves once per received event, at the tail of the loop; the trim
\* is invoked at the trim points whose cutoff exceeds 1, and nowhere else
TrimContract(interval) ==
    IF pc = "trim"
    THEN /\ (pc' = "trim_utxo") <=> (TrimPoint(interval) /\ TrimHeight > 1)
         /\ trimCounter' = IF TrimPoint(interval) THEN 0 ELSE trimCounter + 1
    ELSE /\ trimCounter' = trimCounter
         /\ pc' # "trim_utxo"

\* C20 (as claimed): the Indexer increments its trim counter once per received
\* event and, every 100 events, invokes TrimSpentUTXOs(height - trimSpentAfter)
\* if and only if that cutoff exceeds 1; between two such points no trim is invoked.
C20_TrimEvery100 == [][TrimContract(100)]_vars

\* C20 (amended): the same with the trim point every 1000 events
C20_TrimEvery1000 == [][TrimContract(TrimIntervalFull)]_vars

C20_Witness ==
    /\ pc = "trim_utxo" /\ cmd.id = 2 * TrimIntervalFull
    /\ trimCounter = 0 /\ TrimHeight > 1

\* C21 (as claimed): the Indexer never creates a utxo row for an output whose value
\* is below DUST_LIMIT: no such output is in the creation list of a Block event or
\* in the store.
C21_NoDustIndexed ==
    /\ \A i \in 1..Len(createUTXOs) : createUTXOs[i].Value >= DUST_LIMIT
    /\ \A u \in db.utxo : u.value >= DUST_LIMIT

RECURSIVE BlockInputs(_)
\* the inputs of the transactions of a block, in order
BlockInputs(txs) ==
    IF txs = << >> THEN << >> ELSE Head(txs).VIn \o BlockInputs(Tail(txs))

\* occurrences of x in the sequence seq
Count(seq, x) == Cardinality({i \in 1..Len(seq) : seq[i] = x})

\* C22: for every Block event, an input whose previous-transaction hash is all
\* zero is never enqueued for removal, and every other input is enqueued exactly
\* once with its (prev hash, vout): the removal list holds each outpoint as often
\* as the block has inputs naming it, and nothing else.
C22_InputsEnqueuedOnce ==
    (cmd.Block # << >>)
        => LET ins == BlockInputs(cmd.Block[1].Tx)
               named == {[Tx |-> ins[i].TxID, VOut |-> ins[i].VOut] : i \in 1..Len(ins)}
                           \cup {removeUTXOs[i] : i \in 1..Len(removeUTXOs)}
           IN  \A o \in named :
                 Count(removeUTXOs, o) =
                     IF o.Tx = Zeroes THEN 0
                     ELSE Count(ins, [TxID |-> o.Tx, VOut |-> o.VOut])

C22_Witness ==
    /\ pc = "record" /\ Committed
    /\ cmd.Block[1].Tx[1].VIn = << [TxID |-> Zeroes, VOut |-> 1], [TxID |-> 5, VOut |-> 1] >>
    /\ Len(cmd.Block[1].Tx) = 2
    /\ removeUTXOs = << [Tx |-> 5, VOut |-> 1], [Tx |-> 1, VOut |-> 0] >>

\* the script types of spendable outputs
SpendableTypes == {ScriptTypeP2PK, ScriptTypeP2PKH, ScriptTypeP2SH, ScriptTypeMultiSig,
                   ScriptTypeP2PKHW, ScriptTypeP2SHW}

\* C23: the Indexer never stores an output classified as NullData or NonStandard,
\* no answer of FindUTXOs or GetBalance counts a null-data output, and every row
\* it creates has a script type among P2PK, P2PKH, P2SH, MultiSig, P2PKHW, P2SHW.
C23_OnlySpendableTypes ==
    /\ \A i \in 1..Len(createUTXOs) : createUTXOs[i].Type \in SpendableTypes
    /\ \A u \in db.utxo : u.kind \in SpendableTypes
    /\ txn # << >> => \A u \in txn[1].utxo : u.kind \in SpendableTypes
    /\ \A k \in {ScriptTypeNullData, ScriptTypeNonStandard}, a \in QueryAddrs :
          /\ FindUTXOs(db, k, a) = {}
          /\ \A c \in QueryConfs :
                GetBalance(db, k, a, c) = [Available |-> 0, Incoming |-> 0, Outgoing |-> 0]
    /\ \A k \in SpendableTypes, a \in QueryAddrs :
          \A f \in FindUTXOs(db, k, a) :
             \E t \in 1..Len(cmd.Block[1].Tx) :
                /\ cmd.Block[1].Tx[t].TxID = f.TxID
                /\ cmd.Block[1].Tx[t].VOut[f.VOut + 1].Type = k

C23_Witness ==
    /\ pc = "record" /\ Committed
    /\ cmd.Block[1].Tx[1].VOut =
          << [Value |-> DUST_LIMIT, Type |-> ScriptTypeNullData, Script |-> Addr1],
             Pay(Addr1, DUST_LIMIT) >>
    /\ FindUTXOs(db, ScriptTypeP2PKH, Addr1) =
          {[TxID |-> 1, VOut |-> 1, Value |-> DUST_LIMIT, Type |-> ScriptTypeP2PKH,
            Script |-> Addr1]}

\* the stored utxo rows an outpoint matches: those of the tx row with its hash
\* that have its vout
Matches(s, o) ==
    {u \in s.utxo : \E t \in s.tx : t.txid = u.txid /\ t.hash = o.Tx /\ u.vout = o.VOut}

\* C24: RemoveUTXOs given an outpoint that matches no stored utxo row changes no
\* row for that outpoint and still marks every other outpoint of the batch that
\* does match as spent at the given height; nothing else changes and the call
\* goes through.
C24_RemoveUnmatched ==
    (pc = "store" /\ cmd.op = "remove"
       /\ \E i \in 1..Len(cmd.list) : Matches(pre, cmd.list[i]) = {})
        => /\ db.utxo = {IF \E i \in 1..Len(cmd.list) : u \in Matches(pre, cmd.list[i])
                         THEN [u EXCEPT !.spent = cmd.height] ELSE u : u \in pre.utxo}
           /\ db.tx = pre.tx
           /\ db.resume = pre.resume

C24_Witness ==
    /\ pc = "store" /\ cmd.op = "remove"
    /\ cmd.list = << [Tx |-> 4, VOut |-> 0], OutPoint(UtxoA) >>
    /\ Matches(pre, cmd.list[1]) = {}
    /\ \E u \in Matches(pre, cmd.list[2]) : u.spent = NULL
    /\ \E u \in Matches(db, cmd.list[2]) : u.spent = cmd.height
    /\ Cardinality(db.utxo) >= 2

\* Transact has committed the writes of fn
TxnCommitted == cmd.work = "nil" /\ cmd.commit = "nil"

\* C25 (as claimed): Transact(fn) commits the effects of fn if and only if fn
\* returns no error and the commit succeeds; when fn returns an error the store is
\* unchanged and the error is returned; an attempt that fails with a busy/locked
\* conflict is retried (the next attempt begins), at most 120 attempts are made,
\* and then Transact returns an error.
C25_TransactContract ==
    /\ pc \in TxnPcs => db = pre
    /\ pc = "txn_returned" =>
          /\ db = (IF TxnCommitted THEN Fn(pre, cmd.height) ELSE pre)
          /\ cmd.err = "nil" <=> TxnCommitted
          /\ cmd.work \in {"error", "conflict"} => cmd.err = cmd.work
          /\ txn = << >>
    /\ attempt <= TxnLimit
    /\ pc = "txn_begin" => ENABLED (TxnBegin \/ TxnBeginFail)

\* positions at which Run is about to execute a writer operation of the store
WriterPcs == {"blk_remove", "blk_create", "blk_resume", "undo_above", "undo_resume",
              "trim_utxo", "trim_tx"}

\* C26 (as claimed): every writer operation the Indexer performs on the store runs
\* inside a Transact scope, and the two deletions of a trim take effect together:
\* between them a reader sees the store before the trim or after the whole trim.
C26_WritersInTransact ==
    /\ pc \in WriterPcs => txn # << >>
    /\ pc = "trim_tx" => db \in {pre, TrimSpentUTXOs(pre, TrimHeight)}

\* blocks recorded so far in a run of Block events recorded one by one
Recorded == IF pc = "record" THEN cmd.id - 1 ELSE cmd.id

\* the record of the k-th Block event
RecordOf(k) ==
    [Height |-> k, Hash |-> BlockHash(k, 0), TxCount |-> Len(RingBlock(k).Tx),
     UTXOCreated |-> 0, UTXOSpent |-> 0]

\* the last min(n, 10) of n recorded blocks, most recent first
LastRecorded(n) == [i \in 1..(IF n < 10 THEN n ELSE 10) |-> RecordOf(n - i + 1)]

\* C27: after any sequence of processed events and any interleaving with
\* GetBlockHistory calls, the ring holds at most 10 records, most recent first
\* (element 0 is the block recorded last), it holds the last min(n, 10) recorded
\* blocks, and what GetBlockHistory returned is the ring as it was at the call:
\* later recordings do not alter it.
C27_HistoryRing ==
    /\ [](/\ Len(blockHistory) <= 10
          /\ blockHistory = LastRecorded(Recorded)
          /\ \E m \in 0..Recorded : history = LastRecorded(m))
    /\ [][history' # history => (history' = blockHistory /\ blockHistory' = blockHistory)]_vars

C27_Witness ==
    /\ Recorded = MaxRingEvents
    /\ Len(blockHistory) = 10
    /\ blockHistory[1].Height = MaxRingEvents
    /\ history = LastRecorded(MaxRingEvents - 1)

\* offset (from 0) of the i-th push when the pushes have the lengths ks
RECURSIVE PushOffset(_, _)
PushOffset(ks, i) == IF i = 1 THEN 1 ELSE PushOffset(ks, i - 1) + ks[i - 1] + 1

\* OP_m, exactly n keys of 33 or 65 bytes, OP_n, OP_CHECKMULTISIG, m <= n in 1..3
MultiSigPattern(s) ==
    \E m \in 1..3, n \in 1..3 :
        /\ m <= n
        /\ \E ks \in [1..n -> {33, 65}] :
              /\ Len(s) = PushOffset(ks, n) + ks[n] + 1 + 2
              /\ s[1] = 80 + m
              /\ \A i \in 1..n : s[PushOffset(ks, i) + 1] = ks[i]
              /\ s[Len(s) - 1] = 80 + n
              /\ s[Len(s)] = 174

\* the type of the first matching pattern, in the order of the patterns
PatternType(s) ==
    IF Len(s) > 0 /\ s[1] = 106 /\ Len(s) <= 83 THEN ScriptTypeNullData
    ELSE IF Len(s) = 25 /\ SubSeq(s, 1, 3) = << 118, 169, 20 >> /\ SubSeq(s, 24, 25) = << 136, 172 >>
    THEN ScriptTypeP2PKH
    ELSE IF Len(s) = 35 /\ s[1] = 33 /\ s[35] = 172 THEN ScriptTypeP2PK
    ELSE IF Len(s) = 67 /\ s[1] = 65 /\ s[67] = 172 THEN ScriptTypeP2PK
    ELSE IF Len(s) = 23 /\ SubSeq(s, 1, 2) = << 169, 20 >> /\ s[23] = 135 THEN ScriptTypeP2SH
    ELSE IF MultiSigPattern(s) THEN ScriptTypeMultiSig
    ELSE ScriptTypeNonStandard

\* C28: with every mask bit set, the type returned for every script is that of
\* the first matching pattern in the order NullData, P2PKH, P2PK compressed,
\* P2PK uncompressed, P2SH, standard MultiSig, and NonStandard otherwise; an
\* empty script, an OP_RETURN script of 84 bytes and a multisig-looking script
\* whose keys do not parse are NonStandard.
C28_FullMaskTypes ==
    (pc = "classified" /\ cmd.op = "classify" /\ cmd.mask = 255) =>
        /\ cmd.type = PatternType(cmd.script)
        /\ cmd.script = << >> => cmd.type = ScriptTypeNonStandard
        /\ (Len(cmd.script) = 84 /\ cmd.script[1] = 106) => cmd.type = ScriptTypeNonStandard
        /\ cmd.script = MultiSigScript(1, 2, << 33, 32 >>) => cmd.type = ScriptTypeNonStandard

C28_Witness ==
    /\ pc = "classified" /\ cmd.op = "classify" /\ cmd.mask = 255
    /\ cmd.script = MultiSigScript(2, 3, << 33, 65, 33 >>)
    /\ cmd.type = ScriptTypeMultiSig
    /\ cmd.payload = SubSeq(cmd.script, 1, Len(cmd.script) - 1)

\* the mask bit of a script type
MaskOf(t) == 2 ^ (t - 1)

HasBit(mask, bit) == (mask \div bit) % 2 = 1

\* C29: for every script and every mask the result equals the result under
\* the full mask when the type classified under the full mask has its bit in
\* the mask, and (None, empty) otherwise; the returned type is never one whose
\* bit is absent from the mask.
C29_MaskSelects ==
    (pc = "classified" /\ cmd.op = "classify") =>
        LET full == ClassifyAndCompactScript(cmd.script, 255)
        IN  /\ full.type # ScriptTypeNone
            /\ IF HasBit(cmd.mask, MaskOf(full.type))
               THEN cmd.type = full.type /\ cmd.payload = full.payload
               ELSE cmd.type = ScriptTypeNone /\ cmd.payload = << >>
            /\ cmd.type # ScriptTypeNone => HasBit(cmd.mask, MaskOf(cmd.type))

C29_Witness ==
    /\ pc = "classified" /\ cmd.op = "classify"
    /\ cmd.mask = MaskNonStandard + MaskP2PKH
    /\ cmd.script = MultiSigScript(1, 1, << 65 >>)
    /\ cmd.type = ScriptTypeNone

\* C30: when MaskNonStandard is set and the script matches no standard
\* pattern, the type is NonStandard and the payload is the whole input script.
C30_NonStandardPayload ==
    (/\ pc = "classified" /\ cmd.op = "classify"
     /\ HasBit(cmd.mask, 128)
     /\ PatternType(cmd.script) = ScriptTypeNonStandard) =>
        /\ cmd.type = ScriptTypeNonStandard
        /\ cmd.payload = cmd.script

\* C31: for every script the classifier assigns a type in 2..6 the compact
\* payload is lossless: expanding (type, payload) reproduces the script byte
\* for byte, and no other script has the same type and payload; for P2PKH and
\* P2SH the payload is exactly the 20-byte hash with no script framing (for
\* 76 A9 14 <H> 88 AC the result is (P2PKH, H)).
C31_CompactLossless ==
    /\ (pc = "classified" /\ cmd.op = "classify" /\ cmd.type \in 2..6) =>
          /\ ExpandScript(cmd.type, cmd.payload) = cmd.script
          /\ \A s \in Scripts :
                ClassifyAndCompactScript(s, cmd.mask) = [type |-> cmd.type, payload |-> cmd.payload]
                    => s = cmd.script
          /\ cmd.type = ScriptTypeP2PKH =>
                /\ Len(cmd.payload) = 20
                /\ cmd.script = << 118, 169, 20 >> \o cmd.payload \o << 136, 172 >>
          /\ cmd.type = ScriptTypeP2SH =>
                /\ Len(cmd.payload) = 20
                /\ cmd.script = << 169, 20 >> \o cmd.payload \o << 135 >>
    /\ (/\ pc = "classified" /\ cmd.op = "classify" /\ HasBit(cmd.mask, 2)
        /\ cmd.script = << 118, 169, 20 >> \o Fill(20, 7) \o << 136, 172 >>) =>
          (cmd.type = ScriptTypeP2PKH /\ cmd.payload = Fill(20, 7))

C31_Witness ==
    /\ pc = "classified" /\ cmd.op = "classify" /\ cmd.mask = MaskP2PKH + MaskMultiSig
    /\ cmd.script = << 118, 169, 20 >> \o Fill(20, 7) \o << 136, 172 >>
    /\ cmd.type = ScriptTypeP2PKH
    /\ cmd.payload = Fill(20, 7)

\* C32: an OPTIONS request to any registered path (/health, /balance, /utxo,
\* /height, /blocks) is answered with status 204 and the header
\* Allow: GET, OPTIONS, and performs no store query.
C32_OptionsNoContent ==
    (pc = "responded" /\ cmd.op = "http" /\ cmd.method = "OPTIONS") =>
        /\ cmd.resp.status = 204
        /\ cmd.resp.allow = "GET, OPTIONS"
        /\ cmd.queries = << >>

\* C33: TrimSpentUTXOs(cutoff) deletes exactly the utxo rows whose spent height
\* is non-null and below the cutoff, and then deletes a tx row if and only if no
\* utxo row references it: tx rows that still have a utxo row are kept.
C33_TrimExact ==
    (pc = "store" /\ cmd.op = "trim") =>
        /\ db.utxo = {u \in pre.utxo : ~(u.spent # NULL /\ u.spent < cmd.height)}
        /\ db.tx = {t \in pre.tx : \E u \in db.utxo : u.txid = t.txid}

\* a statement of the trim has returned an error
TrimFailed == pc \in {"trim_utxo", "trim_tx"} /\ pc' = "loop"

\* C34: when TrimSpentUTXOs returns an error the Indexer continues with the
\* next event; the failure changes neither the resume cursor nor the answers
\* of FindUTXOs / GetBalance (they are those before the trim began), and the
\* trim is not retried until the next trim interval.
C34_TrimFailureHarmless ==
    [][TrimFailed =>
          /\ db'.resume = pre.resume
          /\ trimCounter' = 0
          /\ \A k \in Kinds, a \in Addrs :
                /\ FindUTXOs(db', k, a) = FindUTXOs(pre, k, a)
                /\ GetBalance(db', k, a, Confirmations) = GetBalance(pre, k, a, Confirmations)]_vars

\* the event in hand is an idle one (neither Block nor Undo set)
IdleEvent == cmd.id > 0 /\ cmd.Block = << >> /\ cmd.Undo = << >>

\* C35 (as claimed): processing an idle event changes no persisted state: the
\* utxo table, the tx table and the resume cursor are the same before and
\* after the event.
C35_IdleNoChange ==
    [][(IdleEvent /\ pc # "select") => db' = db]_vars

\* C35 (amended): an idle event changes no persisted state except by the trim
\* that follows every event: the steps of an idle event other than the two
\* statements of TrimSpentUTXOs leave the store as it is, an idle event that is
\* not a trim point (the counter below the interval, or trimHeight <= 1) runs
\* no trim, and no step of an idle event changes the resume cursor.
C35_IdleOnlyTrims ==
    [][(IdleEvent /\ pc # "select") =>
          /\ db'.resume = db.resume
          /\ db' # db => pc \in {"trim_utxo", "trim_tx"}
          /\ (pc = "trim" /\ (trimCounter + 1 < LagInterval \/ TrimHeight <= 1)) => pc' = "loop"]_vars

C35_Witness ==
    /\ IdleEvent
    /\ pc = "trim_done"
    /\ pre.utxo # db.utxo
    /\ \E u \in db.utxo : u.spent = NULL

\* the stores a state holds: the committed one and the open transaction's
Stores == {db} \cup {txn[i] : i \in 1..Len(txn)}

\* C36: every spent utxo row has a spent height >= its creation height, and
\* a row's spent height, once set to h, changes only by an UndoAbove(k) with
\* k < h, which clears it, or by the row's deletion.
C36_SpentHeightStable ==
    /\ [](\A s \in Stores : \A u \in s.utxo : u.spent # NULL => u.spent >= u.born)
    /\ [][\A u \in db.utxo : \A v \in db'.utxo :
             (u.spent # NULL /\ v.txid = u.txid /\ v.vout = u.vout /\ v.spent # u.spent)
                => (v.spent = NULL /\ pc = "undo_commit" /\ cmd.Height < u.spent)]_vars

C36_Witness ==
    /\ pc = "trim" /\ cmd.Undo # << >> /\ lastCommitId = cmd.id
    /\ \E u \in pre.utxo : \E v \in db.utxo :
          /\ v.txid = u.txid /\ v.vout = u.vout
          /\ u.spent # NULL /\ u.spent > cmd.Height /\ u.spent >= u.born
          /\ v.spent = NULL

RECURSIVE SumFound(_)
\* sum of the values of the rows FindUTXOs returned
SumFound(rows) ==
    IF rows = {} THEN 0
    ELSE LET r == CHOOSE x \in rows : TRUE
         IN  r.Value + SumFound(rows \ {r})

\* C37: in every committed state reachable through the Indexer, for every
\* (kind, address) and confirmations value, GetBalance's available + incoming
\* equals the sum of the values of the rows FindUTXOs returns for the same
\* (kind, address).
C37_BalanceMatchesFind ==
    \A k \in QueryKinds, a \in QueryAddrs, c \in QueryConfs :
        GetBalance(db, k, a, c).Available + GetBalance(db, k, a, c).Incoming
            = SumFound(FindUTXOs(db, k, a))

C37_Witness ==
    /\ GetBalance(db, ScriptTypeP2PKH, Addr2, 1).Available > 0
    /\ GetBalance(db, ScriptTypeP2PKH, Addr2, 1).Incoming > 0
    /\ Cardinality(FindUTXOs(db, ScriptTypeP2PKH, Addr2)) >= 2

C39_RecordsAreCommitted ==
    [][Len(blockHistory') > Len(blockHistory)
          => (cmd.Block # << >> /\ (EventNeedsTxn => Committed))]_vars

\* every creation height and spent height of the store is at or below h
NothingAbove(s, h) ==
    /\ \A t \in s.tx : t.height <= h
    /\ \A u \in s.utxo : u.spent # NULL => u.spent <= h

\* C40: UndoAbove is idempotent and monotone: for every store state and
\* heights h <= k, UndoAbove(h) twice equals UndoAbove(h) once, UndoAbove(k)
\* followed by UndoAbove(h) equals UndoAbove(h) alone, and UndoAbove(h) with h
\* at or above every creation height and spent height changes nothing.
C40_UndoIdempotentMonotone ==
    \A h \in 0..StoreMaxHeight :
        /\ UndoAbove(UndoAbove(db, h), h) = UndoAbove(db, h)
        /\ \A k \in h..StoreMaxHeight :
              UndoAbove(UndoAbove(db, k), h) = UndoAbove(db, h)
        /\ NothingAbove(db, h) => UndoAbove(db, h) = db

\* UndoAbove(h) has been called on a store with rows above h and none above
\* some k > h, and has deleted a tx row and cleared a spent height
C40_Witness ==
    /\ cmd.op = "undo"
    /\ db # pre
    /\ \E k \in (cmd.height + 1)..StoreMaxHeight :
          /\ NothingAbove(pre, k)
          /\ ~NothingAbove(pre, cmd.height)
    /\ Cardinality(db.tx) < Cardinality(pre.tx)
    /\ \E u \in pre.utxo : u.spent # NULL /\ [u EXCEPT !.spent = NULL] \in db.utxo
    /\ NothingAbove(db, cmd.height)

====
